---- MODULE Spec2Model ----
(***************************************************************************)
(* Verification model of vscode-todo-md: the due date engine of            *)
(* src/src/timeUtils.ts, the document actions and the grouping of          *)
(* src/src/treeViewProviders/treeViews.ts, and updateState of the          *)
(* extension.                                                              *)
(*                                                                         *)
(* Text is a sequence of one-character strings.  An instant is a whole     *)
(* number of hours since 1970-01-01T00:00 of the local standard time; a    *)
(* calendar day is a whole number of days since 1970-01-01.                *)
(***************************************************************************)
EXTENDS Integers, Sequences, FiniteSets, TLC

VARIABLES
    due,        \* the text of the due expression being evaluated
    now,        \* the instant of the evaluation (new Date())
    dstZone,    \* whether the local zone observes daylight saving time
    pc,         \* "idle", "parsed" or "evaluated"
    parsed,     \* the result of parseDue(due)
    info,       \* the due state of the whole expression
    tasks,      \* the parsed tasks of the document, in document order
    lastVisit,  \* the instant of the last visit of the document
    edits,      \* the edits of the WorkspaceEdit, in the order they were added
    lines,      \* the lines of the text document
    anchor,     \* the dueDateStart of a call of isDueWithDate: <<>> or <<instant>>
    archive,    \* the lines appended to the default archive file
    extensionConfig, \* the settings the document actions read
    command,    \* the arguments of the last document action
    activeDocument, \* extensionState.activeDocument: <<>> or <<the lines of the document>>
    extensionState, \* the fields of extensionState that updateState writes
    calls       \* the calls of updateState: where each is, and its local values

\* the variables of the due engine and of the reset
engine ==
    <<due, now, dstZone, pc, parsed, info, tasks, lastVisit, edits, lines, anchor, archive,
      extensionConfig, command>>

\* the variables of updateState
state == <<activeDocument, extensionState, calls>>

vars == <<engine, state>>

(***************************************************************************)
(* Characters                                                              *)
(***************************************************************************)
Digits == <<"0", "1", "2", "3", "4", "5", "6", "7", "8", "9">>

IsDigit(c) == \E i \in 1..10 : Digits[i] = c

DigitVal(c) == (CHOOSE i \in 1..10 : Digits[i] = c) - 1

Lower ==
    <<"a", "b", "c", "d", "e", "f", "g", "h", "i", "j", "k", "l", "m",
      "n", "o", "p", "q", "r", "s", "t", "u", "v", "w", "x", "y", "z">>

Upper ==
    <<"A", "B", "C", "D", "E", "F", "G", "H", "I", "J", "K", "L", "M",
      "N", "O", "P", "Q", "R", "S", "T", "U", "V", "W", "X", "Y", "Z">>

LowerLetters == {Lower[i] : i \in 1..26}

UpperLetters == {Upper[i] : i \in 1..26}

\* The regular expression class \w
IsWord(c) == IsDigit(c) \/ c \in LowerLetters \/ c \in UpperLetters \/ c = "_"

\* The regular expression class \s (the model's texts hold no other blank)
IsSpace(c) == c = " "

\* Number(text) of a text made of digits
RECURSIVE Number(_)
Number(s) ==
    IF s = <<>> THEN 0
    ELSE 10 * Number(SubSeq(s, 1, Len(s) - 1)) + DigitVal(s[Len(s)])

\* s has the text w at position p (1-based)
HasAt(s, p, w) ==
    /\ p >= 1
    /\ p + Len(w) - 1 <= Len(s)
    /\ SubSeq(s, p, p + Len(w) - 1) = w

\* the positions of s where the text w begins
Occurrences(s, w) == {p \in 1..Len(s) : HasAt(s, p, w)}

SetMin(S) == CHOOSE x \in S : \A y \in S : x <= y

\* String.prototype.split with a non-empty separator
RECURSIVE Split(_, _)
Split(s, sep) ==
    IF Occurrences(s, sep) = {} THEN <<s>>
    ELSE LET p == SetMin(Occurrences(s, sep))
         IN  <<SubSeq(s, 1, p - 1)>> \o Split(SubSeq(s, p + Len(sep), Len(s)), sep)

\* Array.prototype.filter(d => d.length)
RECURSIVE FilterNonEmpty(_)
FilterNonEmpty(q) ==
    IF q = <<>> THEN <<>>
    ELSE (IF Len(Head(q)) > 0 THEN <<Head(q)>> ELSE <<>>) \o FilterNonEmpty(Tail(q))

(***************************************************************************)
(* Dates: the local calendar and the Date object                           *)
(***************************************************************************)
\* ONE_DAY_IN_MS, in the model's unit of one hour
ONE_DAY == 24

\* Math.trunc(a / b) for b > 0
TruncDiv(a, b) == IF a >= 0 THEN a \div b ELSE -((-a) \div b)

\* a % n === 0 in the language: the remainder by zero is NaN, which equals
\* nothing; otherwise the remainder has the sign of the dividend and -0 === 0
RemIsZero(a, n) ==
    /\ n # 0
    /\ (IF a >= 0 THEN a % n ELSE -((-a) % n)) = 0

\* the day number of the proleptic Gregorian date y-m-d, m in 1..12; a day
\* d outside the month counts on from the month's first day
DaysFromCivil(y, m, d) ==
    LET yy  == IF m <= 2 THEN y - 1 ELSE y
        era == yy \div 400
        yoe == yy - era * 400
        mp  == (m + 9) % 12
        doy == (153 * mp + 2) \div 5 + d - 1
        doe == yoe * 365 + yoe \div 4 - yoe \div 100 + doy
    IN  era * 146097 + doe - 719468

\* the day on which the local zone, when it observes daylight saving time,
\* moves its clocks one hour forward (2018-03-25): that day lasts 23 hours
DstDay == DaysFromCivil(2018, 3, 25)

\* the instant of the local midnight that begins day d
LocalMidnight(d) ==
    d * ONE_DAY - (IF dstZone /\ d > DstDay THEN 1 ELSE 0)

\* the local calendar day an instant falls on
DayOf(t) ==
    LET d0 == t \div ONE_DAY
    IN  IF LocalMidnight(d0 + 1) <= t THEN d0 + 1 ELSE d0

\* new Date(year, monthIndex, date): the local midnight; a year in 0..99 is
\* taken as 1900 + year, month and date roll over
NewDate(year, monthIndex, date) ==
    LET yr == IF year >= 0 /\ year <= 99 THEN 1900 + year ELSE year
        y  == yr + (monthIndex \div 12)
        m  == (monthIndex % 12) + 1
    IN  LocalMidnight(DaysFromCivil(y, m, date))

\* Date.prototype.getDay: 0 is Sunday
getDay(t) == (DayOf(t) + 4) % 7

calcDiffInDays(d1, d2) == TruncDiv(d2 - d1, ONE_DAY)

shortenToDate(date) == LocalMidnight(DayOf(date))

isTheSameDay(d1, d2) == DayOf(d1) = DayOf(d2)

(***************************************************************************)
(* The due date engine                                                     *)
(***************************************************************************)
DueState == {"NotDue", "Due", "Overdue", "Invalid"}

DueReturn == [isRecurring : BOOLEAN, isRange : BOOLEAN, isDue : DueState]

\* the end of the longest run of digits of s that begins at q
RECURSIVE DigitRunEnd(_, _)
DigitRunEnd(s, q) ==
    IF q <= Len(s) /\ IsDigit(s[q]) THEN DigitRunEnd(s, q + 1) ELSE q

\* the end of the longest run of \w of s that begins at q
RECURSIVE WordRunEnd(_, _)
WordRunEnd(s, q) ==
    IF q <= Len(s) /\ IsWord(s[q]) THEN WordRunEnd(s, q + 1) ELSE q

AllDigits(s, p, q) == q <= Len(s) /\ \A i \in p..q : IsDigit(s[i])

\* /(\d\d\d\d)-(\d\d)-(\d\d)(-(\w+))?/ matches s at position p
DueWithDateAt(s, p) ==
    /\ p + 9 <= Len(s)
    /\ AllDigits(s, p, p + 3)
    /\ s[p + 4] = "-"
    /\ AllDigits(s, p + 5, p + 6)
    /\ s[p + 7] = "-"
    /\ AllDigits(s, p + 8, p + 9)

\* dueWithDateRegexp.exec(due): the groups of the leftmost match; group 5
\* is <<>> when the optional group took no part in the match
dueWithDateRegexp(s) ==
    LET ps == {p \in 1..Len(s) : DueWithDateAt(s, p)}
    IN  IF ps = {} THEN [ok |-> FALSE, g1 |-> <<>>, g2 |-> <<>>, g3 |-> <<>>, g5 |-> <<>>]
        ELSE LET p == SetMin(ps)
                 e == WordRunEnd(s, p + 11)
             IN  [ok |-> TRUE,
                  g1 |-> SubSeq(s, p, p + 3),
                  g2 |-> SubSeq(s, p + 5, p + 6),
                  g3 |-> SubSeq(s, p + 8, p + 9),
                  g5 |-> IF p + 10 <= Len(s) /\ s[p + 10] = "-" /\ e > p + 11
                         THEN SubSeq(s, p + 11, e - 1) ELSE <<>>]

\* everyNDayRegexp.exec(s) is not null: /e(\d+)d/
everyNDayRegexp(s) ==
    \E p \in 1..Len(s) :
        /\ s[p] = "e"
        /\ DigitRunEnd(s, p + 1) > p + 1
        /\ DigitRunEnd(s, p + 1) <= Len(s)
        /\ s[DigitRunEnd(s, p + 1)] = "d"

\* [\s?](d|days?) at position q
UnitAt(s, q) ==
    \/ (q <= Len(s) /\ s[q] = "d")
    \/ (q + 1 <= Len(s) /\ IsSpace(s[q]) /\ s[q + 1] = "d")

\* (\d+)?\s?(d|days?) at position q: the digits taken, greedy first
IntervalFrom(s, q) ==
    LET e == DigitRunEnd(s, q)
    IN  IF e > q /\ UnitAt(s, e) THEN [ok |-> TRUE, num |-> SubSeq(s, q, e - 1)]
        ELSE IF UnitAt(s, q) THEN [ok |-> TRUE, num |-> <<>>]
        ELSE [ok |-> FALSE, num |-> <<>>]

\* /(?!every|each|e)\s?(\d+)?\s?(d|days?)/ at position p
IntervalAt(s, p) ==
    IF HasAt(s, p, <<"e", "v", "e", "r", "y">>) \/ HasAt(s, p, <<"e", "a", "c", "h">>)
       \/ HasAt(s, p, <<"e">>)
    THEN [ok |-> FALSE, num |-> <<>>]
    ELSE IF IsSpace(s[p]) /\ IntervalFrom(s, p + 1).ok THEN IntervalFrom(s, p + 1)
    ELSE IntervalFrom(s, p)

\* the leftmost match of the interval expression in s
intervalRegexp(s) ==
    LET ps == {p \in 1..Len(s) : IntervalAt(s, p).ok}
    IN  IF ps = {} THEN [ok |-> FALSE, num |-> <<>>] ELSE IntervalAt(s, SetMin(ps))

\* the target instant is not shortened to its day
isDueWithDateUnshortened(dueDate, dueDateStart, date) ==
    LET targetTimestamp == date
        match == intervalRegexp(dueDate)
    IN  IF dueDateStart = <<>> THEN "Error"
        ELSE IF match.ok
        THEN LET interval   == IF match.num # <<>> THEN Number(match.num) ELSE 1
                 diffInDays == calcDiffInDays(shortenToDate(dueDateStart[1]), targetTimestamp)
             IN  IF RemIsZero(diffInDays, interval) THEN "Due" ELSE "NotDue"
        ELSE "NotDue"

\* an algorithm the expression does not match is an error too
isDueWithDateStrict(dueDate, dueDateStart, date) ==
    LET targetTimestamp == date
        match == intervalRegexp(dueDate)
    IN  IF dueDateStart = <<>> THEN "Error"
        ELSE IF match.ok
        THEN LET interval   == IF match.num # <<>> THEN Number(match.num) ELSE 1
                 diffInDays == calcDiffInDays(shortenToDate(dueDateStart[1]),
                                              shortenToDate(targetTimestamp))
             IN  IF RemIsZero(diffInDays, interval) THEN "Due" ELSE "NotDue"
        ELSE "Error"

\* dueDateStart is <<>> for undefined and <<t>> for the instant t; the
\* result "Error" is the Error the function throws
isDueWithDate(dueDate, dueDateStart, date) ==
    LET targetTimestamp == date
        match == intervalRegexp(dueDate)
    IN  IF dueDateStart = <<>> THEN "Error"
        ELSE IF match.ok
        THEN LET interval   == IF match.num # <<>> THEN Number(match.num) ELSE 1
                 diffInDays == calcDiffInDays(shortenToDate(dueDateStart[1]),
                                              shortenToDate(targetTimestamp))
             IN  IF RemIsZero(diffInDays, interval) THEN "Due" ELSE "NotDue"
        ELSE "NotDue"

isDueToday(s, today) ==
    IF s = <<"e", "d">> THEN "Due"
    ELSE LET day == getDay(today)
         IN  IF s = <<"S", "u", "n">> /\ day = 0 THEN "Due"
             ELSE IF s = <<"M", "o", "n">> /\ day = 1 THEN "Due"
             ELSE IF s = <<"T", "u", "e">> /\ day = 2 THEN "Due"
             ELSE IF s = <<"W", "e", "d">> /\ day = 3 THEN "Due"
             ELSE IF s = <<"T", "h", "u">> /\ day = 4 THEN "Due"
             ELSE IF s = <<"F", "r", "i">> /\ day = 5 THEN "Due"
             ELSE IF s = <<"S", "a", "t">> /\ day = 6 THEN "Due"
             ELSE "NotDue"

isDueExactDate(date, today) ==
    IF today < date THEN "NotDue"
    ELSE LET diffInDays == calcDiffInDays(shortenToDate(today), shortenToDate(date))
         IN  IF diffInDays = 0 THEN "Due" ELSE "Overdue"

\* dayjs(text) of a text of the form YYYY-MM-DD: the local midnight of that
\* date, month and day rolling over as in new Date(y, m - 1, d); any other
\* text of the model's inputs gives an invalid date
dayjs(s) ==
    IF Len(s) = 10 /\ DueWithDateAt(s, 1)
    THEN [valid |-> TRUE,
          t |-> NewDate(Number(SubSeq(s, 1, 4)), Number(SubSeq(s, 6, 7)) - 1,
                        Number(SubSeq(s, 9, 10)))]
    ELSE [valid |-> FALSE, t |-> 0]

\* a.isBefore(b, 'day') of two dayjs values: false when either is invalid
isBeforeDay(a, b) == a.valid /\ b.valid /\ DayOf(a.t) < DayOf(b.t)

\* a.isAfter(b, 'day')
isAfterDay(a, b) == a.valid /\ b.valid /\ DayOf(b.t) < DayOf(a.t)

\* x.isBetween(a, b, 'day', '[]') of the isBetween plugin
isBetweenDay(x, a, b) ==
    \/ (~isBeforeDay(x, a) /\ ~isAfterDay(x, b))
    \/ (~isAfterDay(x, a) /\ ~isBeforeDay(x, b))

\* the range without its last day
isDueBetweenExclusive(d1, d2, today) ==
    LET n     == [valid |-> TRUE, t |-> today]
        date1 == dayjs(d1)
        date2 == dayjs(d2)
    IN  [isRecurring |-> FALSE,
         isRange     |-> TRUE,
         isDue       |-> IF isBeforeDay(date1, n) /\ isBeforeDay(date2, n) THEN "Overdue"
                         ELSE IF ~isBeforeDay(n, date1) /\ isBeforeDay(n, date2) THEN "Due"
                         ELSE "NotDue"]

isDueBetween(d1, d2, today) ==
    LET n     == [valid |-> TRUE, t |-> today]
        date1 == dayjs(d1)
        date2 == dayjs(d2)
    IN  [isRecurring |-> FALSE,
         isRange     |-> TRUE,
         isDue       |-> IF isBeforeDay(date1, n) /\ isBeforeDay(date2, n) THEN "Overdue"
                         ELSE IF isBetweenDay(n, date1, date2) THEN "Due"
                         ELSE "NotDue"]

parseDueDate(s, today) ==
    IF s = <<"t", "o", "d", "a", "y">>
    THEN [isRecurring |-> FALSE, isRange |-> FALSE, isDue |-> "Due"]
    ELSE LET tryAsRange == Split(s, <<".", ".">>)
         IN  IF Len(tryAsRange) > 1
             THEN isDueBetween(tryAsRange[1], tryAsRange[2], today)
             ELSE LET match == dueWithDateRegexp(s)
                  IN  IF match.ok
                      THEN LET year         == Number(match.g1)
                               month        == Number(match.g2) - 1
                               date         == Number(match.g3)
                               dateObject   == NewDate(year, month, date)
                               dueAlgorithm == match.g5
                           IN  IF dueAlgorithm = <<>>
                               THEN [isDue       |-> isDueExactDate(dateObject, today),
                                     isRecurring |-> FALSE,
                                     isRange     |-> FALSE]
                               ELSE [isDue       |-> IF everyNDayRegexp(dueAlgorithm)
                                                     THEN isDueWithDate(dueAlgorithm, <<dateObject>>, today)
                                                     ELSE "NotDue",
                                     isRecurring |-> TRUE,
                                     isRange     |-> FALSE]
                      ELSE [isDue       |-> isDueToday(s, today),
                            isRecurring |-> TRUE,
                            isRange     |-> FALSE]

\* only the first alternative is parsed
parseDueFirstOnly(s, today) ==
    LET dueDates == FilterNonEmpty(Split(s, <<",">>))
    IN  [i \in 1..(IF Len(dueDates) > 0 THEN 1 ELSE 0) |-> parseDueDate(dueDates[i], today)]

\* Array.prototype.map(dueDate => parseDueDate(dueDate))
parseDue(s, today) ==
    LET dueDates == FilterNonEmpty(Split(s, <<",">>))
    IN  [i \in 1..Len(dueDates) |-> parseDueDate(dueDates[i], today)]

\* the due state of a whole expression from the states of its alternatives:
\* Due when any alternative is Due, otherwise Overdue when any is Overdue,
\* Invalid when every alternative is Invalid, otherwise NotDue
combineDue(alts) ==
    [isDue       |-> IF \E i \in 1..Len(alts) : alts[i].isDue = "Due" THEN "Due"
                     ELSE IF \E i \in 1..Len(alts) : alts[i].isDue = "Overdue" THEN "Overdue"
                     ELSE IF \A i \in 1..Len(alts) : alts[i].isDue = "Invalid" THEN "Invalid"
                     ELSE "NotDue",
     isRecurring |-> \E i \in 1..Len(alts) : alts[i].isRecurring,
     isRange     |-> \E i \in 1..Len(alts) : alts[i].isRange]

\* new DueDate(raw, { targetDate }): the expression evaluated at targetDate
DueDate(raw, targetDate) == combineDue(parseDue(raw, targetDate))

(***************************************************************************)
(* Inputs                                                                  *)
(***************************************************************************)
\* the decimal digits of n, most significant first, zero-padded to width w
RECURSIVE Pad(_, _)
Pad(n, w) == IF w = 0 THEN <<>> ELSE Pad(n \div 10, w - 1) \o <<Digits[(n % 10) + 1]>>

\* the text YYYY-MM-DD of the numbers y, m, d, whether a calendar date or not
IsoText(y, m, d) == Pad(y, 4) \o <<"-">> \o Pad(m, 2) \o <<"-">> \o Pad(d, 2)

\* year, month and day of a day number
CivilFromDays(z0) ==
    LET z   == z0 + 719468
        era == z \div 146097
        doe == z - era * 146097
        yoe == (doe - doe \div 1460 + doe \div 36524 - doe \div 146096) \div 365
        doy == doe - (365 * yoe + yoe \div 4 - yoe \div 100)
        mp  == (5 * doy + 2) \div 153
        d   == doy - (153 * mp + 2) \div 5 + 1
        m   == IF mp < 10 THEN mp + 3 ELSE mp - 9
    IN  <<yoe + era * 400 + (IF m <= 2 THEN 1 ELSE 0), m, d>>

\* the full names of the weekdays, Sunday first as getDay numbers them
WeekdayNames ==
    <<<<"s", "u", "n", "d", "a", "y">>,
      <<"m", "o", "n", "d", "a", "y">>,
      <<"t", "u", "e", "s", "d", "a", "y">>,
      <<"w", "e", "d", "n", "e", "s", "d", "a", "y">>,
      <<"t", "h", "u", "r", "s", "d", "a", "y">>,
      <<"f", "r", "i", "d", "a", "y">>,
      <<"s", "a", "t", "u", "r", "d", "a", "y">>>>

\* a letter in upper case; any other character unchanged
ToUpper(c) == IF c \in LowerLetters THEN Upper[CHOOSE i \in 1..26 : Lower[i] = c] ELSE c

UpperCase(s) == [i \in 1..Len(s) |-> ToUpper(s[i])]

Capitalize(s) == <<ToUpper(s[1])>> \o Tail(s)

Abbreviate(s) == SubSeq(s, 1, 3)

\* every spelling of weekday number w (0 is Sunday) that the inputs use:
\* full or abbreviated, in lower case, capitalized or upper case
WeekdaySpellings(w) ==
    LET full == WeekdayNames[w + 1]
    IN  {full, Abbreviate(full), Capitalize(full), Capitalize(Abbreviate(full)),
         UpperCase(Abbreviate(full))}

Jan1of2018 == DaysFromCivil(2018, 1, 1)

\* the target days reach from the day before 2018-01-01 to TargetSpan days
\* after it, and from the day before DstDay to DstSpan days after it
TargetSpan == 7

DstSpan == 2

TargetDays ==
    ((Jan1of2018 - 1)..(Jan1of2018 + TargetSpan)) \cup ((DstDay - 1)..(DstDay + DstSpan))

\* the hours after the local midnight at which an evaluation takes place
HoursOfDay == {0, 13, 22}

\* year, month and day of the exact dates the inputs use: calendar dates
ExactDates ==
    {<<2017, 12, 31>>, <<2018, 1, 1>>, <<2018, 1, 3>>, <<2018, 1, 7>>,
     <<2018, 3, 24>>, <<2018, 3, 25>>, <<2018, 3, 26>>}

\* year, month and day of texts YYYY-MM-DD that name no calendar date
NonDates == {<<2020, 7, 35>>, <<2017, 12, 32>>, <<2017, 13, 1>>, <<2018, 2, 30>>}

\* the start dates and interval suffixes of the date-anchored recurrences
StartDates == {<<2018, 1, 1>>, <<2018, 1, 3>>, <<2018, 3, 24>>}

Intervals == {2, 3}

EveryNDays(n) == <<"e">> \o Pad(n, 1) \o <<"d">>

\* start date and algorithm joined by the separator sep
Anchored(ymd, sep, algorithm) == IsoText(ymd[1], ymd[2], ymd[3]) \o sep \o algorithm

\* suffixes whose interval is zero, has no unit or is not a number
BadAlgorithms == {<<"e", "0", "d">>, <<"e", "1", "4">>, <<"e", "x", "d">>}

\* texts that match none of the forms of the grammar
InvalidFixtures ==
    {<<"2", "0", "2", "0">>,
     <<"2", "0", "2", "0", "-", "0", "5", "-", "2">>,
     IsoText(2020, 7, 31) \o <<"|", "e", "1", "4">>}

Join(a, b) == a \o <<",">> \o b

CommaExprs ==
    {Join(<<"m", "o", "n">>, <<"s", "u", "n">>),
     Join(<<"M", "o", "n">>, <<"S", "u", "n">>),
     Join(IsoText(2018, 1, 1), <<"W", "e", "d">>),
     Join(<<"W", "e", "d">>, IsoText(2018, 1, 1)),
     Join(IsoText(2018, 1, 1), IsoText(2018, 1, 3)),
     Join(IsoText(2018, 1, 7), <<"T", "u", "e">>),
     Join(<<"2", "0", "2", "0">>, <<"2", "0", "2", "0", "-", "0", "5", "-", "2">>),
     Join(<<"2", "0", "2", "0">>, <<"W", "e", "d">>),
     Join(<<"2", "0", "2", "0">>, IsoText(2018, 1, 3))}

\* the endpoints of the ranges: every ordered pair of them is a range
RangeEnds == {<<2018, 1, 2>>, <<2018, 1, 4>>, <<2018, 3, 25>>}

Range(a, b) == IsoText(a[1], a[2], a[3]) \o <<".", ".">> \o IsoText(b[1], b[2], b[3])

RangeExprs == {Range(a, b) : a \in RangeEnds, b \in RangeEnds}

DueExprs ==
    {<<"t", "o", "d", "a", "y">>, <<"e", "d">>}
    \cup UNION {WeekdaySpellings(w) : w \in 0..6}
    \cup {IsoText(x[1], x[2], x[3]) : x \in ExactDates \cup NonDates}
    \cup {Anchored(x, <<"-">>, EveryNDays(n)) : x \in StartDates, n \in Intervals}
    \cup {Anchored(x, <<"|">>, EveryNDays(n)) : x \in StartDates, n \in Intervals}
    \cup {Anchored(<<2018, 1, 1>>, <<"-">>, a) : a \in BadAlgorithms}
    \cup InvalidFixtures \cup CommaExprs \cup RangeExprs

(***************************************************************************)
(* Evaluation of a due expression                                          *)
(***************************************************************************)
\* the fields of extensionState that updateState writes; the fields read
\* from the result of groupAndSortTreeItems hold <<value>>, or <<>> for
\* undefined
InitialState ==
    [tasks               |-> <<>>,
     tasksAsTree         |-> <<>>,
     commentLines        |-> <<>>,
     tags                |-> << <<>> >>,
     projects            |-> << <<>> >>,
     contexts            |-> << <<>> >>,
     tagsForTreeView     |-> << <<>> >>,
     projectsForTreeView |-> << <<>> >>,
     contextsForTreeView |-> << <<>> >>]

\* the number of calls of updateState that can be under way at once
MaxCalls == 2

IdleCall == [pc |-> "idle", outcome |-> "none", parsedDocument |-> <<>>, treeItems |-> <<>>]

\* no document is open and no call of updateState is under way
NoUpdate ==
    /\ activeDocument = <<>>
    /\ extensionState = InitialState
    /\ calls = [c \in 1..MaxCalls |-> IdleCall]

\* the settings under which the due engine, the reset and updateState run
DefaultConfig ==
    [autoArchiveTasks |-> FALSE, addCompletionDate |-> TRUE, confirmTaskDelete |-> "always"]

\* nothing is archived and the settings are the default ones
NoArchive ==
    /\ archive = <<>>
    /\ extensionConfig = DefaultConfig
    /\ command = <<>>

NoInfo == [isDue |-> "NotDue", isRecurring |-> FALSE, isRange |-> FALSE]

Init ==
    /\ due \in DueExprs
    /\ dstZone \in BOOLEAN
    /\ now \in {LocalMidnight(d) + h : d \in TargetDays, h \in HoursOfDay}
    /\ pc = "idle"
    /\ parsed = <<>>
    /\ info = NoInfo
    /\ tasks = <<>>
    /\ lastVisit = now
    /\ edits = <<>>
    /\ lines = <<>>
    /\ anchor \in {<<>>, <<LocalMidnight(Jan1of2018)>>}
    /\ NoArchive
    /\ NoUpdate

\* an Error thrown for one alternative leaves parseDue as an exception
Raised(rs) == \E i \in 1..Len(rs) : rs[i].isDue = "Error"

\* parseDue(due) at the instant now
ParseDue ==
    /\ pc = "idle"
    /\ parsed' = parseDue(due, now)
    /\ pc' = IF Raised(parsed') THEN "raised" ELSE "parsed"
    /\ UNCHANGED <<due, now, dstZone, info, tasks, lastVisit, edits, lines, anchor, archive,
                 extensionConfig, command, state>>

\* the states of the alternatives are combined into the state of the task
CombineDue ==
    /\ pc = "parsed"
    /\ info' = combineDue(parsed)
    /\ pc' = "evaluated"
    /\ UNCHANGED <<due, now, dstZone, parsed, tasks, lastVisit, edits, lines, anchor, archive,
                 extensionConfig, command, state>>

\* isDueWithDate(due, anchor) called by itself at the instant now
IsDueWithDate ==
    /\ pc = "idle"
    /\ LET isDue == isDueWithDate(due, anchor, now)
       IN  IF isDue = "Error"
           THEN pc' = "raised" /\ info' = info
           ELSE pc' = "called" /\ info' = [NoInfo EXCEPT !.isDue = isDue]
    /\ UNCHANGED <<due, now, dstZone, parsed, tasks, lastVisit, edits, lines, anchor, archive,
                 extensionConfig, command, state>>

Next == ParseDue \/ CombineDue \/ IsDueWithDate

Spec == Init /\ [][Next]_vars

(***************************************************************************)
(* The reset of the recurring tasks                                        *)
(***************************************************************************)
\* dayjs(t).format(DATE_FORMAT): the local calendar day as YYYY-MM-DD
FormatDate(t) ==
    LET c == CivilFromDays(DayOf(t))
    IN  IsoText(c[1], c[2], c[3])

\* dayjs(t).subtract(i, 'day'): the same time of day, i calendar days earlier
SubtractDays(t, i) == LocalMidnight(DayOf(t) - i) + (t - LocalMidnight(DayOf(t)))

\* dayjs(a).diff(b, 'day') of two local midnights: whole calendar days
DiffDays(a, b) == DayOf(a) - DayOf(b)

\* dayjs(a).isSame(b, 'day')
isSameDay(a, b) == DayOf(a) = DayOf(b)

(***************************************************************************)
(* Lines of the document and their tasks                                   *)
(***************************************************************************)
\* extensionConfig.doneSymbol
doneSymbol == <<"x", " ">>

\* line.firstNonWhitespaceCharacterIndex, as a position counted from 1: the
\* length of the line plus one when the line holds nothing but blanks
RECURSIVE FirstNonWhitespace(_, _)
FirstNonWhitespace(s, p) ==
    IF p <= Len(s) /\ IsSpace(s[p]) THEN FirstNonWhitespace(s, p + 1) ELSE p

RECURSIVE TrimEnd(_)
TrimEnd(s) ==
    IF s # <<>> /\ IsSpace(s[Len(s)]) THEN TrimEnd(SubSeq(s, 1, Len(s) - 1)) ELSE s

\* String.prototype.trim
Trim(s) == TrimEnd(SubSeq(s, FirstNonWhitespace(s, 1), Len(s)))

\* String(n) of a natural number
RECURSIVE String(_)
String(n) == IF n < 10 THEN <<Digits[n + 1]>> ELSE String(n \div 10) \o <<Digits[(n % 10) + 1]>>

\* the positions of the braces that open a {key:value} tag of the line
TagStarts(s) == {p \in 1..Len(s) : s[p] = "{" /\ \E q \in (p + 1)..Len(s) : s[q] = "}"}

TagEnd(s, p) == SetMin({q \in (p + 1)..Len(s) : s[q] = "}"})

TagBody(s, p) == SubSeq(s, p + 1, TagEnd(s, p) - 1)

TagKey(body) ==
    IF Occurrences(body, <<":">>) = {} THEN body
    ELSE SubSeq(body, 1, SetMin(Occurrences(body, <<":">>)) - 1)

TagValue(body) ==
    IF Occurrences(body, <<":">>) = {} THEN <<>>
    ELSE SubSeq(body, SetMin(Occurrences(body, <<":">>)) + 1, Len(body))

TagsWithKey(s, key) == {p \in TagStarts(s) : TagKey(TagBody(s, p)) = key}

\* the value of the first tag of the line with the key; <<>> when none
TagValueOf(s, key) ==
    IF TagsWithKey(s, key) = {} THEN <<>>
    ELSE TagValue(TagBody(s, SetMin(TagsWithKey(s, key))))

\* the counter of a {count:current/needed} tag: its two numbers and the
\* position of its opening brace; <<>> when the line has no such tag
CountOf(s) ==
    LET starts == TagsWithKey(s, <<"c", "o", "u", "n", "t">>)
        p      == SetMin(starts)
        v      == TagValue(TagBody(s, p))
        slash  == SetMin(Occurrences(v, <<"/">>))
    IN  IF starts = {} THEN <<>>
        ELSE IF Occurrences(v, <<"/">>) = {} THEN <<>>
        ELSE <<Number(SubSeq(v, 1, slash - 1)), Number(SubSeq(v, slash + 1, Len(v))), p>>

\* extensionState.activeDocumentTabSize: the blanks of one level of nesting
activeDocumentTabSize == 4

\* the words of a line
Words(s) == FilterNonEmpty(Split(s, <<" ">>))

\* the names of the words that begin with the sigil, in the order of the
\* line, each name once
RECURSIVE NamesFrom(_, _, _)
NamesFrom(ws, sigil, acc) ==
    IF ws = <<>> THEN acc
    ELSE LET w == Head(ws)
         IN  NamesFrom(Tail(ws), sigil,
                       IF Len(w) > 1 /\ w[1] = sigil /\ ~\E i \in 1..Len(acc) : acc[i] = Tail(w)
                       THEN Append(acc, Tail(w))
                       ELSE acc)

\* the range of the first tag of the line with the key, from its opening
\* brace to after its closing brace: <<>> when none, else <<from, to>>
TagRange(s, key) ==
    IF TagsWithKey(s, key) = {} THEN <<>>
    ELSE LET p == SetMin(TagsWithKey(s, key)) IN <<p, TagEnd(s, p) + 1>>

\* where the priority (X) of a line stands: after the indentation and the
\* done symbol
PriorityStart(s) ==
    LET p == FirstNonWhitespace(s, 1)
    IN  IF HasAt(s, p, doneSymbol) THEN p + Len(doneSymbol) ELSE p

\* the range of the priority (X) of the line: <<>> when none
PriorityRange(s) ==
    LET p == PriorityStart(s)
    IN  IF p + 2 <= Len(s) /\ s[p] = "(" /\ s[p + 1] \in UpperLetters /\ s[p + 2] = ")"
        THEN <<p, p + 3>>
        ELSE <<>>

\* the task of the line with number n: it is done when the line begins
\* with the done symbol or carries a completion tag, dated or not
ParseLine(s, n) ==
    [lineNumber     |-> n,
     indentLvl      |-> (FirstNonWhitespace(s, 1) - 1) \div activeDocumentTabSize,
     tags           |-> NamesFrom(Words(s), "#", <<>>),
     projects       |-> NamesFrom(Words(s), "+", <<>>),
     contexts       |-> NamesFrom(Words(s), "@", <<>>),
     due            |-> TagValueOf(s, <<"d", "u", "e">>),
     done           |-> \/ HasAt(s, FirstNonWhitespace(s, 1), doneSymbol)
                        \/ TagsWithKey(s, <<"c", "m">>) # {},
     completionDate |-> TagsWithKey(s, <<"c", "m">>) # {},
     overdue        |-> TagsWithKey(s, <<"o", "v", "e", "r", "d", "u", "e">>) # {},
     count          |-> CountOf(s),
     priority       |-> IF PriorityRange(s) = <<>> THEN <<>> ELSE <<s[PriorityRange(s)[1] + 1]>>,
     priorityRange  |-> PriorityRange(s),
     dueRange       |-> TagRange(s, <<"d", "u", "e">>),
     overdueRange   |-> TagRange(s, <<"o", "v", "e", "r", "d", "u", "e">>)]

\* a comment line begins with the comment marker
IsCommentLine(s) == HasAt(s, FirstNonWhitespace(s, 1), <<"#", " ">>)

(***************************************************************************)
(* The tree of the tasks                                                   *)
(***************************************************************************)
\* pop the stack until its top is a task less indented than the line
RECURSIVE PopStack(_, _, _)
PopStack(stack, ts, level) ==
    IF stack # <<>> /\ ts[stack[Len(stack)]].indentLvl >= level
    THEN PopStack(SubSeq(stack, 1, Len(stack) - 1), ts, level)
    ELSE stack

\* the task becomes the first subtask of its parent
AddChildFirst(children, parent, i) == [children EXCEPT ![parent] = <<i>> \o @]

\* the task becomes the last subtask of its parent
AddChild(children, parent, i) == [children EXCEPT ![parent] = Append(@, i)]

\* the lines from the i-th on are added: st holds the stack of the open
\* ancestors, the roots, and the subtasks and the parent of every task, all
\* as positions in ts, 0 for no parent
RECURSIVE BuildFrom(_, _, _)
BuildFrom(ts, i, st) ==
    IF i > Len(ts) THEN st
    ELSE LET stack == PopStack(st.stack, ts, ts[i].indentLvl)
             top   == IF stack = <<>> THEN 0 ELSE stack[Len(stack)]
         IN  BuildFrom(ts, i + 1,
                       [stack    |-> Append(stack, i),
                        roots    |-> IF top = 0 THEN Append(st.roots, i) ELSE st.roots,
                        children |-> IF top = 0 THEN st.children
                                     ELSE AddChild(st.children, top, i),
                        parent   |-> [st.parent EXCEPT ![i] = top]])

\* the task at position i with its subtasks, each with its own
RECURSIVE Nest(_, _, _)
Nest(ts, st, i) ==
    [lineNumber           |-> ts[i].lineNumber,
     indentLvl            |-> ts[i].indentLvl,
     tags                 |-> ts[i].tags,
     projects             |-> ts[i].projects,
     contexts             |-> ts[i].contexts,
     parentTaskLineNumber |-> IF st.parent[i] = 0 THEN -1 ELSE ts[st.parent[i]].lineNumber,
     subtasks             |-> [k \in 1..Len(st.children[i]) |-> Nest(ts, st, st.children[i][k])]]

\* buildTree(parsedLines): the root tasks, each with its subtasks
buildTree(ts) ==
    LET st == BuildFrom(ts, 1, [stack    |-> <<>>,
                                roots    |-> <<>>,
                                children |-> [i \in 1..Len(ts) |-> <<>>],
                                parent   |-> [i \in 1..Len(ts) |-> 0]])
    IN  [roots |-> [k \in 1..Len(st.roots) |-> Nest(ts, st, st.roots[k])],
         flat  |-> ts]

\* the positions of the lines of the document that hold a task (comment = FALSE)
\* or a comment (comment = TRUE), in document order
RECURSIVE LinesOfKind(_, _, _)
LinesOfKind(document, i, comment) ==
    IF i > Len(document) THEN <<>>
    ELSE (IF IsCommentLine(document[i]) = comment THEN <<i>> ELSE <<>>)
            \o LinesOfKind(document, i + 1, comment)

\* parseDocument(document): the tasks in document order, the same tasks as
\* a tree, and the comment lines
parseDocument(document) ==
    LET taskLines    == LinesOfKind(document, 1, FALSE)
        commentLines == LinesOfKind(document, 1, TRUE)
        ts == [k \in 1..Len(taskLines) |-> ParseLine(document[taskLines[k]], taskLines[k] - 1)]
    IN  [tasks        |-> ts,
         tasksAsTree  |-> buildTree(ts).roots,
         commentLines |-> [k \in 1..Len(commentLines) |->
                              [lineNumber |-> commentLines[k] - 1,
                               text       |-> document[commentLines[k]]]]]

\* document.lineAt(lineNumber)
lineAt(document, n) == [lineNumber |-> n, text |-> document[n + 1]]

(***************************************************************************)
(* The edits of the document                                               *)
(***************************************************************************)
\* An edit replaces the characters from..(to - 1) of its line by newText;
\* text is the value the edit was asked to write.
addOverdueSpecialTagWorkspaceEdit(line, overdueDateString) ==
    [kind |-> "insertOverdue", line |-> line.lineNumber, text |-> overdueDateString,
     from |-> Len(line.text) + 1, to |-> Len(line.text) + 1,
     newText |-> <<" ", "{", "o", "v", "e", "r", "d", "u", "e", ":">>
                     \o overdueDateString \o <<"}">>]

\* the range begins 'count:'.length + 1 after the brace of the tag and is
\* as long as the current value
setCountCurrentValueEdit(lineNumber, count, value) ==
    LET charIndexWithOffset == count[3] + Len(<<"c", "o", "u", "n", "t", ":">>) + 1
    IN  [kind |-> "setCount", line |-> lineNumber, text |-> value,
         from |-> charIndexWithOffset, to |-> charIndexWithOffset + Len(String(count[1])),
         newText |-> value]

\* the edit is added only when the trimmed line begins with the done symbol
removeDoneSymbolEdit(line) ==
    IF HasAt(Trim(line.text), 1, doneSymbol)
    THEN <<[kind |-> "removeDoneSymbol", line |-> line.lineNumber, text |-> <<>>,
            from |-> FirstNonWhitespace(line.text, 1),
            to |-> FirstNonWhitespace(line.text, 1) + Len(doneSymbol),
            newText |-> <<>>]>>
    ELSE <<>>

\* the position after a match of {cm:\d{4}-\d{2}-\d{2}(T\d{2}:\d{2}:\d{2})?}
\* that begins at p; 0 when there is none
CompletionTagEnd(s, p) ==
    LET d      == p + 4
        dateOk == /\ HasAt(s, p, <<"{", "c", "m", ":">>)
                  /\ AllDigits(s, d, d + 3)
                  /\ d + 9 <= Len(s)
                  /\ s[d + 4] = "-"
                  /\ AllDigits(s, d + 5, d + 6)
                  /\ s[d + 7] = "-"
                  /\ AllDigits(s, d + 8, d + 9)
        timeOk == /\ d + 18 <= Len(s)
                  /\ s[d + 10] = "T"
                  /\ AllDigits(s, d + 11, d + 12)
                  /\ s[d + 13] = ":"
                  /\ AllDigits(s, d + 14, d + 15)
                  /\ s[d + 16] = ":"
                  /\ AllDigits(s, d + 17, d + 18)
    IN  IF ~dateOk THEN 0
        ELSE IF timeOk /\ d + 19 <= Len(s) /\ s[d + 19] = "}" THEN d + 20
        ELSE IF d + 10 <= Len(s) /\ s[d + 10] = "}" THEN d + 11
        ELSE 0

\* completionDateRegex.exec(text): the positions where
\* /\s{cm:\d{4}-\d{2}-\d{2}(T\d{2}:\d{2}:\d{2})?}\s?/ matches
completionDateRegex(s) ==
    {p \in 1..Len(s) : IsSpace(s[p]) /\ CompletionTagEnd(s, p + 1) # 0}

\* the edit deletes the first match, with the blank before it and the blank
\* after it when there is one
removeCompletionDateWorkspaceEdit(line) ==
    LET s     == line.text
        index == SetMin(completionDateRegex(s))
        close == CompletionTagEnd(s, index + 1)
        end   == IF close <= Len(s) /\ IsSpace(s[close]) THEN close + 1 ELSE close
    IN  IF completionDateRegex(s) = {} THEN <<>>
        ELSE <<[kind |-> "removeCompletionDate", line |-> line.lineNumber, text |-> <<>>,
                from |-> index, to |-> end, newText |-> <<>>]>>

\* the scan run the other way, from yesterday back to the last visit
RECURSIVE ScanFromYesterday(_, _, _, _, _)
ScanFromYesterday(line, task, j, i, today) ==
    IF j > i THEN <<>>
    ELSE LET date == SubtractDays(today, j)
             res  == DueDate(task.due, date)
         IN  IF res.isDue = "Due" \/ res.isDue = "Overdue"
             THEN <<addOverdueSpecialTagWorkspaceEdit(line, FormatDate(date))>>
             ELSE ScanFromYesterday(line, task, j + 1, i, today)

ScanOverdueBackward(line, task, i, today) == ScanFromYesterday(line, task, 1, i, today)

\* for (let i = daysSinceLastVisit; i > 0; i--): the edit of the first day,
\* counted from i days before today, on which the task is due or overdue
RECURSIVE ScanOverdue(_, _, _, _)
ScanOverdue(line, task, i, today) ==
    IF i <= 0 THEN <<>>
    ELSE LET date == SubtractDays(today, i)
             res  == DueDate(task.due, date)
         IN  IF res.isDue = "Due" \/ res.isDue = "Overdue"
             THEN <<addOverdueSpecialTagWorkspaceEdit(line, FormatDate(date))>>
             ELSE ScanOverdue(line, task, i - 1, today)

\* the pass that tags a task whether or not it carries an overdue tag
ResetTaskIgnoringOverdue(document, task, visit, today) ==
    LET line == lineAt(document, task.lineNumber)
    IN  IF task.due # <<>> /\ DueDate(task.due, today).isRecurring
        THEN (IF task.done
              THEN removeDoneSymbolEdit(line) \o removeCompletionDateWorkspaceEdit(line)
              ELSE IF ~isSameDay(today, visit)
                   THEN ScanOverdue(line, task,
                                    DiffDays(shortenToDate(today), shortenToDate(visit)), today)
                   ELSE <<>>)
             \o (IF task.count # <<>>
                 THEN <<setCountCurrentValueEdit(task.lineNumber, task.count, <<"0">>)>>
                 ELSE <<>>)
        ELSE <<>>

\* the pass that restarts the counter only of a task that is not done
ResetTaskCountWhenOpen(document, task, visit, today) ==
    LET line == lineAt(document, task.lineNumber)
    IN  IF task.due # <<>> /\ DueDate(task.due, today).isRecurring
        THEN IF task.done
             THEN removeDoneSymbolEdit(line) \o removeCompletionDateWorkspaceEdit(line)
             ELSE (IF ~task.overdue /\ ~isSameDay(today, visit)
                   THEN ScanOverdue(line, task,
                                    DiffDays(shortenToDate(today), shortenToDate(visit)), today)
                   ELSE <<>>)
                  \o (IF task.count # <<>>
                      THEN <<setCountCurrentValueEdit(task.lineNumber, task.count, <<"0">>)>>
                      ELSE <<>>)
        ELSE <<>>

\* the body of the loop over the tasks: the edits of one task
ResetTask(document, task, visit, today) ==
    LET line == lineAt(document, task.lineNumber)
    IN  IF task.due # <<>> /\ DueDate(task.due, today).isRecurring
        THEN (IF task.done
              THEN removeDoneSymbolEdit(line) \o removeCompletionDateWorkspaceEdit(line)
              ELSE IF ~task.overdue /\ ~isSameDay(today, visit)
                   THEN LET lastVisitWithoutTime == shortenToDate(visit)
                            nowWithoutTime       == shortenToDate(today)
                            daysSinceLastVisit   == DiffDays(nowWithoutTime, lastVisitWithoutTime)
                        IN  ScanOverdue(line, task, daysSinceLastVisit, today)
                   ELSE <<>>)
             \o (IF task.count # <<>>
                 THEN <<setCountCurrentValueEdit(task.lineNumber, task.count, <<"0">>)>>
                 ELSE <<>>)
        ELSE <<>>

\* the edits of the tasks ts of the document, in the order they are added
RECURSIVE ResetTasks(_, _, _, _)
ResetTasks(document, ts, visit, today) ==
    IF ts = <<>> THEN <<>>
    ELSE ResetTask(document, Head(ts), visit, today)
            \o ResetTasks(document, Tail(ts), visit, today)

resetAllRecurringTasks(document, visit, today) ==
    ResetTasks(document, parseDocument(document).tasks, visit, today)

\* two edits of one line whose ranges share a character
Overlapping(es) ==
    \E j \in 1..Len(es), k \in 1..Len(es) :
        /\ j # k
        /\ es[j].line = es[k].line
        /\ es[j].from < es[k].to
        /\ es[k].from < es[j].to

\* the text of a line once the edits ks of es, all of that line, are made:
\* each range is a range of the text before any edit, so the edit that
\* begins last is made first
RECURSIVE ApplyToLine(_, _, _)
ApplyToLine(s, es, ks) ==
    IF ks = {} THEN s
    ELSE LET k == CHOOSE x \in ks : \A y \in ks : es[y].from <= es[x].from
             e == es[k]
         IN  ApplyToLine(SubSeq(s, 1, e.from - 1) \o e.newText \o SubSeq(s, e.to, Len(s)),
                         es, ks \ {k})

\* applyEdit(wEdit, document): a WorkspaceEdit with overlapping ranges is
\* refused and leaves the document as it was
RECURSIVE ApplyFrom(_, _, _)
ApplyFrom(es, document, i) ==
    IF i > Len(document) THEN <<>>
    ELSE LET ks == {k \in 1..Len(es) : es[k].line = i - 1}
         IN  (IF \E k \in ks : es[k].to = Len(document[i]) + 2
              THEN <<>>
              ELSE <<ApplyToLine(document[i], es, ks)>>)
                 \o ApplyFrom(es, document, i + 1)

\* applyEdit(wEdit, document): a WorkspaceEdit with overlapping ranges is
\* refused and leaves the document as it was; a range that ends after the
\* last character of its line by two takes the line break, and with it the
\* line
applyEdit(es, document) ==
    IF Overlapping(es) THEN document ELSE ApplyFrom(es, document, 1)

(***************************************************************************)
(* The documents of the reset pass                                         *)
(***************************************************************************)
\* the text " {key:value}"
Tag(key, value) == <<" ", "{">> \o key \o <<":">> \o value \o <<"}">>

\* the due expressions of the tasks; <<>> is a task without a due tag
TaskDues ==
    {<<>>, <<"e", "d">>, <<"M", "o", "n">>, <<"W", "e", "d">>,
     IsoText(2018, 1, 1),
     Anchored(<<2018, 1, 1>>, <<"-">>, EveryNDays(3)),
     Anchored(<<2018, 3, 24>>, <<"-">>, EveryNDays(2))}

\* the progress counters of the tasks: <<>> is none, else <<current, needed>>
TaskCounts == {<<>>, <<1, 3>>}

\* the completion tags of a line: none, {cm:date}, {cm:dateTtime}, and the
\* tag without a date of completionDateIncludeDate = false
CompletionTags ==
    {<<>>,
     Tag(<<"c", "m">>, IsoText(2018, 1, 2)),
     Tag(<<"c", "m">>, IsoText(2018, 1, 2) \o <<"T", "0", "9", ":", "1", "1", ":", "1", "7">>),
     <<" ", "{", "c", "m", "}">>}

\* the line of a task titled a
LineText(indent, ds, d, c, od, cm) ==
    indent
        \o (IF ds THEN doneSymbol ELSE <<>>)
        \o <<"a">>
        \o (IF d = <<>> THEN <<>> ELSE Tag(<<"d", "u", "e">>, d))
        \o (IF c = <<>> THEN <<>> ELSE Tag(<<"c", "o", "u", "n", "t">>, String(c[1]) \o <<"/">> \o String(c[2])))
        \o (IF od THEN Tag(<<"o", "v", "e", "r", "d", "u", "e">>, IsoText(2017, 12, 31)) ELSE <<>>)
        \o cm

\* the lines a document begins with
FirstLines ==
    {LineText(<<>>, ds, d, c, od, cm) :
        ds \in BOOLEAN, d \in TaskDues, c \in TaskCounts, od \in BOOLEAN, cm \in CompletionTags}

\* the line of the subtask that follows the first line of a document of two
SecondLines ==
    {LineText(<<" ", " ">>, ds, d, <<>>, FALSE,
              IF ds THEN Tag(<<"c", "m">>, IsoText(2018, 1, 2)) ELSE <<>>) :
        ds \in BOOLEAN, d \in {<<"e", "d">>, IsoText(2018, 1, 1)}}

\* done lines written by hand: the completion tag opens the line, or follows
\* the done symbol at once
HandWrittenLines ==
    {<<"{">> \o Tail(Tail(Tag(<<"c", "m">>, IsoText(2018, 1, 2))))
         \o <<" ", "a">> \o Tag(<<"d", "u", "e">>, <<"e", "d">>),
     doneSymbol \o Tail(Tag(<<"c", "m">>, IsoText(2018, 1, 2)))
         \o <<" ", "a">> \o Tag(<<"d", "u", "e">>, <<"e", "d">>)}

ResetDocuments ==
    {<<s>> : s \in FirstLines \cup HandWrittenLines}
        \cup {<<s, t>> : s \in {LineText(<<>>, ds, d, <<>>, FALSE, <<>>) :
                                   ds \in BOOLEAN, d \in TaskDues},
                         t \in SecondLines}

\* the number of days between the last visit and today is at most MaxGap
MaxGap == 4

ResetDays == {Jan1of2018 + 3, Jan1of2018 + 6, DstDay + 1}

VisitHours == {0, 22}

ResetHours == {0, 13}

InitReset ==
    /\ lines \in ResetDocuments
    /\ tasks = parseDocument(lines).tasks
    /\ due = <<>>
    /\ pc = "idle"
    /\ parsed = <<>>
    /\ info = NoInfo
    /\ edits = <<>>
    /\ anchor = <<>>
    /\ NoArchive
    /\ NoUpdate
    /\ dstZone \in BOOLEAN
    /\ now \in {LocalMidnight(d) + h : d \in ResetDays, h \in ResetHours}
    /\ lastVisit \in {LocalMidnight(DayOf(now) - g) + h : g \in 0..MaxGap, h \in VisitHours}

\* resetAllRecurringTasks(document, lastVisit): the edits are applied as one;
\* tasks keeps the tasks the pass has read
ResetAllRecurringTasks ==
    /\ pc = "idle"
    /\ lines # <<>>
    /\ edits' = resetAllRecurringTasks(lines, lastVisit, now)
    /\ lines' = applyEdit(edits', lines)
    /\ pc' = "reset"
    /\ UNCHANGED <<due, now, dstZone, parsed, info, tasks, lastVisit, anchor, archive,
                 extensionConfig, command, state>>

NextReset == ResetAllRecurringTasks

SpecReset == InitReset /\ [][NextReset]_vars

(***************************************************************************)
(* The state of the extension                                              *)
(***************************************************************************)
\* the pre-order walk of a forest of tasks: a task, then its subtasks
RECURSIVE forEachTask(_)
forEachTask(nodes) ==
    IF nodes = <<>> THEN <<>>
    ELSE <<Head(nodes)>> \o forEachTask(Head(nodes).subtasks) \o forEachTask(Tail(nodes))

\* names that an object literal inherits from Object.prototype: map[name]
\* is a function or an object before anything is stored under the name
InheritedNames ==
    {<<"c", "o", "n", "s", "t", "r", "u", "c", "t", "o", "r">>,
     <<"t", "o", "S", "t", "r", "i", "n", "g">>,
     <<"v", "a", "l", "u", "e", "O", "f">>,
     <<"h", "a", "s", "O", "w", "n", "P", "r", "o", "p", "e", "r", "t", "y">>,
     <<"_", "_", "p", "r", "o", "t", "o", "_", "_">>}

\* a map from titles to tasks is the sequence of its own entries, in the
\* order they were added; threw records a TypeError
EmptyMap == [threw |-> FALSE, items |-> <<>>]

\* if (!map[name]) { map[name] = []; } map[name].push(task): an inherited
\* name is truthy and has no push
PushToMap(map, name, task) ==
    IF map.threw THEN map
    ELSE IF \E i \in 1..Len(map.items) : map.items[i].title = name
    THEN [map EXCEPT !.items = [i \in 1..Len(map.items) |->
                                   IF map.items[i].title = name
                                   THEN [map.items[i] EXCEPT !.tasks = Append(@, task)]
                                   ELSE map.items[i]]]
    ELSE IF name \in InheritedNames THEN [map EXCEPT !.threw = TRUE]
    ELSE [map EXCEPT !.items = Append(@, [title |-> name, tasks |-> <<task>>])]

\* for (const name of names) of one task
RECURSIVE PushNames(_, _, _)
PushNames(map, names, task) ==
    IF names = <<>> THEN map
    ELSE PushNames(PushToMap(map, Head(names), task), Tail(names), task)

\* the map of one kind of name ("tags", "projects" or "contexts") after the
\* tasks ts were visited
RECURSIVE GroupBy(_, _, _)
GroupBy(map, ts, kind) ==
    IF ts = <<>> THEN map
    ELSE GroupBy(PushNames(map, Head(ts)[kind], Head(ts)), Tail(ts), kind)

\* a.localeCompare(b) < 0 for names written in lower case letters
RECURSIVE TextLess(_, _)
TextLess(a, b) ==
    IF b = <<>> THEN FALSE
    ELSE IF a = <<>> THEN TRUE
    ELSE IF a[1] = b[1] THEN TextLess(Tail(a), Tail(b))
    ELSE \E i, j \in 1..26 : Lower[i] = a[1] /\ Lower[j] = b[1] /\ i < j

TreeItemSortType == {"alphabetic", "count"}

\* the comparison of sortItemsForProvider is negative: a goes before b
GoesBefore(a, b, sortType) ==
    IF sortType = "alphabetic" THEN TextLess(a.title, b.title)
    ELSE Len(b.tasks) - Len(a.tasks) < 0

\* Array.prototype.sort is stable: an item goes before the first item of
\* the sorted ones that it goes before
RECURSIVE sortItemsForProvider(_, _)
sortItemsForProvider(items, sortType) ==
    IF items = <<>> THEN <<>>
    ELSE LET sorted == sortItemsForProvider(SubSeq(items, 1, Len(items) - 1), sortType)
             x      == items[Len(items)]
             later  == {i \in 1..Len(sorted) : GoesBefore(x, sorted[i], sortType)}
             at     == IF later = {} THEN Len(sorted) + 1 ELSE SetMin(later)
         IN  SubSeq(sorted, 1, at - 1) \o <<x>> \o SubSeq(sorted, at, Len(sorted))

\* Object.keys(map)
Keys(map) == [i \in 1..Len(map.items) |-> map.items[i].title]

\* groupAndSortTreeItems(tasks): forEachTask walks the tree of the state,
\* which updateState has set to tasksAsTree; config holds the three sort
\* types
groupAndSortTreeItems(tasksAsTree, config) ==
    LET visited    == forEachTask(tasksAsTree)
        tagMap     == GroupBy(EmptyMap, visited, "tags")
        projectMap == GroupBy(EmptyMap, visited, "projects")
        contextMap == GroupBy(EmptyMap, visited, "contexts")
    IN  IF tagMap.threw \/ projectMap.threw \/ contextMap.threw
        THEN [threw |-> TRUE]
        ELSE [threw               |-> FALSE,
              contextsForProvider |-> sortItemsForProvider(contextMap.items, config.sortContextsView),
              projectsForProvider |-> sortItemsForProvider(projectMap.items, config.sortProjectsView),
              tagsForProvider     |-> sortItemsForProvider(tagMap.items, config.sortTagsView),
              tags                |-> Keys(tagMap),
              projects            |-> Keys(projectMap),
              contexts            |-> Keys(contextMap)]

\* object.name: <<>> is undefined, read from an object without the property
Prop(object, name) == IF name \in DOMAIN object THEN <<object[name]>> ELSE <<>>

\* the sort types of the three views
Configs ==
    [sortTagsView : TreeItemSortType, sortProjectsView : TreeItemSortType,
     sortContextsView : TreeItemSortType]

\* updateState up to its await: the active document is parsed, or the
\* document of the default file is asked for
UpdateStateBegin(c) ==
    /\ calls[c].pc = "idle"
    /\ calls' = [calls EXCEPT ![c] =
                    IF activeDocument # <<>>
                    THEN [pc |-> "parsing", outcome |-> "none",
                          parsedDocument |-> <<parseDocument(activeDocument[1])>>,
                          treeItems |-> <<>>]
                    ELSE [pc |-> "opening", outcome |-> "none",
                          parsedDocument |-> <<>>, treeItems |-> <<>>]]
    /\ UNCHANGED <<engine, activeDocument, extensionState>>

\* getDocumentForDefaultFile() resolves with document: without one every
\* field is emptied and updateState returns
UpdateStateOpened(c, document) ==
    /\ calls[c].pc = "opening"
    /\ IF document = <<>>
       THEN /\ extensionState' = InitialState
            /\ activeDocument' = <<>>
            /\ calls' = [calls EXCEPT ![c] = [@ EXCEPT !.pc = "idle", !.outcome = "completed"]]
       ELSE /\ calls' = [calls EXCEPT ![c] =
                           [@ EXCEPT !.pc = "parsing",
                                     !.parsedDocument = <<parseDocument(document[1])>>]]
            /\ UNCHANGED <<activeDocument, extensionState>>
    /\ UNCHANGED engine

\* updateState after parseDocument has resolved: the fields are written one
\* after the other; an exception of groupAndSortTreeItems ends the call after
\* the first three
UpdateStateParsed(c, config) ==
    /\ calls[c].pc = "parsing"
    /\ LET parsedDocument == calls[c].parsedDocument[1]
           treeItems      == groupAndSortTreeItems(parsedDocument.tasksAsTree, config)
       IN  IF treeItems.threw
           THEN /\ extensionState' =
                       [extensionState EXCEPT !.tasks = parsedDocument.tasks,
                                              !.tasksAsTree = parsedDocument.tasksAsTree,
                                              !.commentLines = parsedDocument.commentLines]
                /\ calls' = [calls EXCEPT ![c] = [@ EXCEPT !.pc = "idle", !.outcome = "rejected"]]
           ELSE /\ extensionState' =
                       [tasks               |-> parsedDocument.tasks,
                        tasksAsTree         |-> parsedDocument.tasksAsTree,
                        commentLines        |-> parsedDocument.commentLines,
                        tagsForTreeView     |-> Prop(treeItems, "sortedTagsForProvider"),
                        projectsForTreeView |-> Prop(treeItems, "projectsForProvider"),
                        contextsForTreeView |-> Prop(treeItems, "contextsForProvider"),
                        tags                |-> Prop(treeItems, "tags"),
                        projects            |-> Prop(treeItems, "projects"),
                        contexts            |-> Prop(treeItems, "contexts")]
                /\ calls' = [calls EXCEPT ![c] = [@ EXCEPT !.pc = "idle",
                                                            !.outcome = "completed",
                                                            !.treeItems = <<treeItems>>]]
    /\ UNCHANGED <<engine, activeDocument>>

\* the text n blanks long
RECURSIVE Blanks(_)
Blanks(n) == IF n = 0 THEN <<>> ELSE <<" ">> \o Blanks(n - 1)

\* a document has at most MaxLines lines, nested at most MaxIndent levels deep
MaxLines == 3

MaxIndent == 2

\* the line of a task titled a, at each level of nesting
IndentedLines == {Blanks(k * activeDocumentTabSize) \o <<"a">> : k \in 0..MaxIndent}

\* every document of tasks without names, whatever the nesting of its lines
TreeDocuments == UNION {[1..n -> IndentedLines] : n \in 0..MaxLines}

\* documents whose tasks carry tags, projects and contexts
TaggedDocument ==
    <<<<"a", " ", "#", "x", " ", "+", "p">>,
      <<" ", " ", " ", " ", "b", " ", "#", "x", " ", "@", "c">>,
      <<"#", " ", "n", "o", "t", "e">>,
      <<"c", " ", "#", "y">>>>

DefaultFileDocument ==
    <<<<"a", " ", "#", "y">>,
      <<" ", " ", " ", " ", "b", " ", "#", "x", " ", "#", "y", " ", "+", "p">>>>

InheritedNameDocument ==
    <<<<"a", " ", "#", "x">>,
      <<"b", " ", "#", "c", "o", "n", "s", "t", "r", "u", "c", "t", "o", "r">>>>

StateDocuments == {TaggedDocument, DefaultFileDocument, InheritedNameDocument}

\* the due engine and the reset are at rest
EngineIdle ==
    /\ due = <<>>
    /\ dstZone = FALSE
    /\ now = LocalMidnight(Jan1of2018)
    /\ pc = "idle"
    /\ parsed = <<>>
    /\ info = NoInfo
    /\ tasks = <<>>
    /\ lastVisit = now
    /\ edits = <<>>
    /\ lines = <<>>
    /\ anchor = <<>>
    /\ NoArchive

\* updateState on a document of tasks of any nesting, one call at a time
InitTree ==
    /\ EngineIdle
    /\ activeDocument \in {<<>>} \cup {<<d>> : d \in TreeDocuments}
    /\ extensionState = InitialState
    /\ calls = [c \in 1..MaxCalls |-> IdleCall]

NextTree ==
    \/ UpdateStateBegin(1)
    \/ \E document \in {<<>>, <<DefaultFileDocument>>} : UpdateStateOpened(1, document)
    \/ \E config \in Configs : UpdateStateParsed(1, config)

SpecTree == InitTree /\ [][NextTree]_vars

\* the active editor changes, or the text of its document
ChangeDocument ==
    /\ \E document \in {<<>>} \cup {<<d>> : d \in StateDocuments} :
           /\ document # activeDocument
           /\ activeDocument' = document
    /\ UNCHANGED <<engine, extensionState, calls>>

\* calls of updateState that overlap, while the document changes
InitState ==
    /\ EngineIdle
    /\ activeDocument \in {<<>>} \cup {<<d>> : d \in StateDocuments}
    /\ extensionState = InitialState
    /\ calls = [c \in 1..MaxCalls |-> IdleCall]

NextState ==
    \/ ChangeDocument
    \/ \E c \in 1..MaxCalls : UpdateStateBegin(c)
    \/ \E c \in 1..MaxCalls, document \in {<<>>, <<DefaultFileDocument>>} :
           UpdateStateOpened(c, document)
    \/ \E c \in 1..MaxCalls, config \in Configs : UpdateStateParsed(c, config)

SpecState == InitState /\ [][NextState]_vars

\* the text of the document changes and the handler of the change calls
\* updateState, which runs up to its await
ChangeDocumentThenUpdate(c, document) ==
    /\ calls[c].pc = "idle"
    /\ <<document>> # activeDocument
    /\ activeDocument' = <<document>>
    /\ calls' = [calls EXCEPT ![c] =
                    [pc |-> "parsing", outcome |-> "none",
                     parsedDocument |-> <<parseDocument(document)>>,
                     treeItems |-> <<>>]]
    /\ UNCHANGED <<engine, extensionState>>

\* calls of updateState that overlap, where every change of the document
\* calls updateState
NextChange ==
    \/ \E c \in 1..MaxCalls, document \in StateDocuments : ChangeDocumentThenUpdate(c, document)
    \/ \E c \in 1..MaxCalls : UpdateStateBegin(c)
    \/ \E c \in 1..MaxCalls, document \in {<<>>, <<DefaultFileDocument>>} :
           UpdateStateOpened(c, document)
    \/ \E c \in 1..MaxCalls, config \in Configs : UpdateStateParsed(c, config)

SpecChange == InitState /\ [][NextChange]_vars

(***************************************************************************)
(* The actions on the lines of the document                                *)
(***************************************************************************)
\* findTaskAtLineExtension(lineNumber): the task of the state with the line
\* number; <<>> when the line holds no task
findTaskAtLineExtension(ts, lineNumber) ==
    IF \E k \in 1..Len(ts) : ts[k].lineNumber = lineNumber
    THEN <<ts[CHOOSE k \in 1..Len(ts) : ts[k].lineNumber = lineNumber]>>
    ELSE <<>>

\* task.due?.isRecurring
isRecurring(task, today) == task.due # <<>> /\ DueDate(task.due, today).isRecurring

\* getDateInISOFormat(date, false) with useLocalDateTime
getDateInISOFormat(date) == FormatDate(date)

\* the edit inserts ' {cm:date}' after the last character of the line
insertCompletionDateEdit(line, today) ==
    [kind |-> "insertCompletionDate", line |-> line.lineNumber,
     text |-> getDateInISOFormat(today),
     from |-> Len(line.text) + 1, to |-> Len(line.text) + 1,
     newText |-> Tag(<<"c", "m">>, getDateInISOFormat(today))]

\* the edit is added only when the task has an overdue tag
removeOverdueEdit(task) ==
    IF task.overdueRange # <<>>
    THEN <<[kind |-> "removeOverdue", line |-> task.lineNumber, text |-> <<>>,
            from |-> task.overdueRange[1], to |-> task.overdueRange[2], newText |-> <<>>]>>
    ELSE <<>>

\* wEdit.delete(uri, line.rangeIncludingLineBreak) for the range of a line
\* read when its text was lineText, applied to document: the range ends at
\* the start of the next line, or at the end of lineText on the last line
DeleteRangeIncludingLineBreak(document, lineNumber, lineText) ==
    LET current == document[lineNumber + 1]
    IN  [kind |-> "deleteLine", line |-> lineNumber, text |-> <<>>,
         from |-> 1,
         to |-> IF lineNumber + 1 < Len(document) THEN Len(current) + 2
                ELSE IF Len(lineText) < Len(current) THEN Len(lineText) + 1
                ELSE Len(current) + 1,
         newText |-> <<>>]

\* the edits the first WorkspaceEdit of toggleDoneAtLine holds
ToggleEdits(config, task, line, firstNonWhitespaceCharacterIndex, today) ==
    IF task.done
    THEN IF ~config.addCompletionDate
         THEN IF HasAt(Trim(line.text), 1, doneSymbol)
              THEN <<[kind |-> "removeDoneSymbol", line |-> line.lineNumber, text |-> <<>>,
                      from |-> firstNonWhitespaceCharacterIndex,
                      to |-> firstNonWhitespaceCharacterIndex + Len(doneSymbol),
                      newText |-> <<>>]>>
              ELSE <<>>
         ELSE removeCompletionDateWorkspaceEdit(line)
    ELSE IF config.addCompletionDate
         THEN <<insertCompletionDateEdit(line, today)>>
         ELSE <<[kind |-> "insertDoneSymbol", line |-> line.lineNumber, text |-> doneSymbol,
                 from |-> firstNonWhitespaceCharacterIndex,
                 to |-> firstNonWhitespaceCharacterIndex,
                 newText |-> doneSymbol]>>

\* toggleDoneAtLine(document, lineNumber): the document after each of its
\* edits, the edits of the toggle, and what the archive file is given
toggleDoneAtLine(config, document, ts, lineNumber, today) ==
    LET found == findTaskAtLineExtension(ts, lineNumber)
        task  == found[1]
        firstNonWhitespaceCharacterIndex == FirstNonWhitespace(document[lineNumber + 1], 1)
        unflagged == IF task.overdue THEN applyEdit(removeOverdueEdit(task), document)
                     ELSE document
        line    == lineAt(unflagged, lineNumber)
        wEdit   == ToggleEdits(config, task, line, firstNonWhitespaceCharacterIndex, today)
        toggled == applyEdit(wEdit, unflagged)
        secondWorkspaceEdit ==
            IF ~isRecurring(task, today)
            THEN <<DeleteRangeIncludingLineBreak(toggled, lineNumber, line.text)>>
            ELSE <<>>
    IN  IF found = <<>>
        THEN [document |-> document, edits |-> <<>>, archived |-> <<>>]
        ELSE IF config.autoArchiveTasks
        THEN [document |-> applyEdit(secondWorkspaceEdit, toggled),
              edits    |-> wEdit \o secondWorkspaceEdit,
              archived |-> <<line.text>>]
        ELSE [document |-> toggled, edits |-> wEdit, archived |-> <<>>]

\* the settings of the document actions
ActionConfigs ==
    [autoArchiveTasks : BOOLEAN, addCompletionDate : BOOLEAN,
     confirmTaskDelete : {"always", "hasNestedTasks", "never"}]

\* the archive file is given at most MaxArchived lines
MaxArchived == 2

\* the user toggles the task of a line of the document; the change of the
\* document has the state parsed again
ToggleDoneAtLine(lineNumber) ==
    /\ Len(archive) < MaxArchived
    /\ LET res == toggleDoneAtLine(extensionConfig, lines, tasks, lineNumber, now)
       IN  /\ lines' = res.document
           /\ edits' = res.edits
           /\ archive' = archive \o res.archived
           /\ tasks' = parseDocument(res.document).tasks
    /\ pc' = "toggled"
    /\ command' = <<lineNumber>>
    /\ UNCHANGED <<due, now, dstZone, parsed, info, lastVisit, anchor, extensionConfig, state>>

\* the variables the document actions leave alone are at rest
ActionsIdle ==
    /\ due = <<>>
    /\ dstZone = FALSE
    /\ now = LocalMidnight(Jan1of2018 + 2) + 13
    /\ pc = "idle"
    /\ parsed = <<>>
    /\ info = NoInfo
    /\ lastVisit = now
    /\ edits = <<>>
    /\ anchor = <<>>
    /\ archive = <<>>
    /\ command = <<>>
    /\ NoUpdate

\* the lines whose task is toggled: open or done, by the done symbol or by
\* a completion date, recurring or not, flagged overdue or not
ToggleLines ==
    {LineText(<<>>, ds, d, <<>>, od, cm) :
        ds \in BOOLEAN, d \in {<<>>, <<"e", "d">>, IsoText(2018, 1, 1)},
        od \in BOOLEAN, cm \in {<<>>, Tag(<<"c", "m">>, IsoText(2018, 1, 2))}}

\* the task stands alone, or before or after the line of another task
ToggleDocuments ==
    {<<s>> : s \in ToggleLines}
        \cup {<<s, <<"b">>>> : s \in ToggleLines}
        \cup {<<<<"b">>, s>> : s \in ToggleLines}

InitToggle ==
    /\ ActionsIdle
    /\ lines \in ToggleDocuments
    /\ tasks = parseDocument(lines).tasks
    /\ extensionConfig \in {c \in ActionConfigs : c.confirmTaskDelete = "always"}

NextToggle == \E lineNumber \in 0..(Len(lines) - 1) : ToggleDoneAtLine(lineNumber)

SpecToggle == InitToggle /\ [][NextToggle]_vars

\* the task of the tree with the line number, with its subtasks
FindNode(nodes, lineNumber) ==
    LET all == forEachTask(nodes)
    IN  all[CHOOSE k \in 1..Len(all) : all[k].lineNumber = lineNumber]

\* task.getNestedTasksIds(): the line numbers of the subtasks of the task
\* and of theirs, at every depth
getNestedTasksIds(task) ==
    LET nested == forEachTask(task.subtasks)
    IN  [k \in 1..Len(nested) |-> nested[k].lineNumber]

\* wEdit.delete(document.uri, document.lineAt(lineNumber).rangeIncludingLineBreak)
deleteTaskWorkspaceEdit(document, lineNumber) ==
    DeleteRangeIncludingLineBreak(document, lineNumber, document[lineNumber + 1])

\* the dialog is shown for every task, or for a task with subtasks
showConfirmationDialog(config, task) ==
    \/ config.confirmTaskDelete = "always"
    \/ config.confirmTaskDelete = "hasNestedTasks" /\ task.subtasks # <<>>

\* the line numbers tryToDeleteTask deletes
taskLineNumbersToDelete(task, lineNumber) ==
    <<lineNumber>> \o (IF task.subtasks # <<>> THEN getNestedTasksIds(task) ELSE <<>>)

\* tryToDeleteTask(document, lineNumber), where button is what the dialog
\* resolves with when it is shown
tryToDeleteTask(config, document, lineNumber, button) ==
    LET parsedDocument == parseDocument(document)
        found == findTaskAtLineExtension(parsedDocument.tasks, lineNumber)
        task  == FindNode(parsedDocument.tasksAsTree, lineNumber)
        lns   == taskLineNumbersToDelete(task, lineNumber)
        edit  == [k \in 1..Len(lns) |-> deleteTaskWorkspaceEdit(document, lns[k])]
    IN  IF found = <<>>
        THEN [outcome |-> "noTask", document |-> document, edits |-> <<>>]
        ELSE IF showConfirmationDialog(config, task) /\ button # "Delete"
        THEN [outcome |-> "declined", document |-> document, edits |-> <<>>]
        ELSE [outcome |-> "deleted", document |-> applyEdit(edit, document), edits |-> edit]

\* the user asks for the task of a line to be deleted and answers the dialog
TryToDeleteTask(lineNumber, button) ==
    /\ LET res == tryToDeleteTask(extensionConfig, lines, lineNumber, button)
       IN  /\ lines' = res.document
           /\ edits' = res.edits
           /\ pc' = res.outcome
           /\ tasks' = parseDocument(res.document).tasks
    /\ command' = <<lineNumber, button>>
    /\ UNCHANGED <<due, now, dstZone, parsed, info, lastVisit, anchor, archive,
                   extensionConfig, state>>

\* the line of the k-th task of a document, nested level deep
TaskLine(k, level) == Blanks(level * activeDocumentTabSize) \o <<Lower[k]>>

\* the lines the k-th line of a document can be: a task at each level of
\* nesting, or a comment
LinesAt(k) == {TaskLine(k, level) : level \in 0..MaxIndent} \cup {<<"#", " ", Lower[k]>>}

\* every document of at most MaxLines such lines
DeleteDocuments == UNION {{d \in [1..n -> UNION {LinesAt(k) : k \in 1..n}] :
                              \A k \in 1..n : d[k] \in LinesAt(k)} : n \in 1..MaxLines}

InitDelete ==
    /\ ActionsIdle
    /\ lines \in DeleteDocuments
    /\ tasks = parseDocument(lines).tasks
    /\ extensionConfig \in {c \in ActionConfigs : ~c.autoArchiveTasks /\ c.addCompletionDate}

NextDelete ==
    \E lineNumber \in 0..(Len(lines) - 1), button \in {"Delete", "undefined"} :
        TryToDeleteTask(lineNumber, button)

SpecDelete == InitDelete /\ [][NextDelete]_vars

\* incrementCountForTask that goes on counting at current = needed
incrementCountWithoutWrap(document, lineNumber, task, today) ==
    IF task.count = <<>> THEN <<>>
    ELSE LET newValue == task.count[1] + 1
         IN  (IF newValue = task.count[2]
              THEN <<insertCompletionDateEdit(lineAt(document, lineNumber), today)>>
                       \o removeOverdueEdit(task)
              ELSE <<>>)
                 \o <<setCountCurrentValueEdit(lineNumber, task.count, String(newValue))>>

\* incrementCountForTask(document, lineNumber, task): the edits of its
\* WorkspaceEdit, in the order they are added
incrementCountForTask(document, lineNumber, task, today) ==
    LET line  == lineAt(document, lineNumber)
        count == task.count
    IN  IF count = <<>> THEN <<>>
        ELSE IF count[1] # count[2]
        THEN LET newValue == count[1] + 1
             IN  (IF newValue = count[2]
                  THEN <<insertCompletionDateEdit(line, today)>> \o removeOverdueEdit(task)
                  ELSE <<>>)
                     \o <<setCountCurrentValueEdit(lineNumber, count, String(newValue))>>
        ELSE <<setCountCurrentValueEdit(lineNumber, count, <<"0">>)>>
                 \o removeCompletionDateWorkspaceEdit(line)

\* decrementCountForTask that leaves the completion date where it is
decrementCountKeepingDate(document, lineNumber, task) ==
    IF task.count = <<>> \/ task.count[1] = 0 THEN <<>>
    ELSE <<setCountCurrentValueEdit(lineNumber, task.count, String(task.count[1] - 1))>>

\* decrementCountForTask(document, lineNumber, task): the edits of its
\* WorkspaceEdit, in the order they are added
decrementCountForTask(document, lineNumber, task) ==
    LET line  == lineAt(document, lineNumber)
        count == task.count
    IN  IF count = <<>> THEN <<>>
        ELSE IF count[1] = 0 THEN <<>>
        ELSE (IF count[1] = count[2] THEN removeCompletionDateWorkspaceEdit(line) ELSE <<>>)
                 \o <<setCountCurrentValueEdit(lineNumber, count, String(count[1] - 1))>>

\* a counter is incremented while its current value is less than MaxCount
MaxCount == 11

\* the user increments the counter of the task of a line
IncrementCountForTask(lineNumber) ==
    /\ findTaskAtLineExtension(tasks, lineNumber) # <<>>
    /\ LET task == findTaskAtLineExtension(tasks, lineNumber)[1]
       IN  /\ task.count # <<>> => task.count[1] < MaxCount
           /\ edits' = incrementCountForTask(lines, lineNumber, task, now)
    /\ lines' = applyEdit(edits', lines)
    /\ tasks' = parseDocument(lines').tasks
    /\ pc' = "incremented"
    /\ command' = <<lineNumber>>
    /\ UNCHANGED <<due, now, dstZone, parsed, info, lastVisit, anchor, archive,
                   extensionConfig, state>>

\* the user decrements the counter of the task of a line
DecrementCountForTask(lineNumber) ==
    /\ findTaskAtLineExtension(tasks, lineNumber) # <<>>
    /\ edits' = decrementCountForTask(lines, lineNumber,
                                      findTaskAtLineExtension(tasks, lineNumber)[1])
    /\ lines' = applyEdit(edits', lines)
    /\ tasks' = parseDocument(lines').tasks
    /\ pc' = "decremented"
    /\ command' = <<lineNumber>>
    /\ UNCHANGED <<due, now, dstZone, parsed, info, lastVisit, anchor, archive,
                   extensionConfig, state>>

\* the counters of the lines: <<current, needed>>
CountValues == {<<0, 1>>, <<1, 3>>, <<9, 10>>, <<2, 2>>, <<3, 2>>}

\* the lines with a counter: open or done by the done symbol, flagged
\* overdue or not, without a completion date or with one, with or without
\* the time, after the counter or before it
CountLines ==
    {LineText(<<>>, ds, <<>>, c, od, cm) :
        ds \in BOOLEAN, c \in CountValues, od \in BOOLEAN,
        cm \in CompletionTags \ {<<" ", "{", "c", "m", "}">>}}
      \cup {<<"a">> \o Tag(<<"c", "m">>, IsoText(2018, 1, 2))
                \o Tag(<<"c", "o", "u", "n", "t">>, <<"2", "/", "2">>)}

\* the task with the counter stands alone, or after the line of a task
\* without one
CountDocuments == {<<s>> : s \in CountLines} \cup {<<<<"b">>, s>> : s \in CountLines}

InitCount ==
    /\ ActionsIdle
    /\ lines \in CountDocuments
    /\ tasks = parseDocument(lines).tasks
    /\ extensionConfig = DefaultConfig

NextCount ==
    \/ \E lineNumber \in 0..(Len(lines) - 1) : IncrementCountForTask(lineNumber)
    \/ \E lineNumber \in 0..(Len(lines) - 1) : DecrementCountForTask(lineNumber)

SpecCount == InitCount /\ [][NextCount]_vars

\* the text '{due:newDueDate}'
DueTag(newDueDate) == Tail(Tag(<<"d", "u", "e">>, newDueDate))

\* setDueDate that adds its tag at the end of the line whatever the line holds
setDueDateAppending(document, ts, lineNumber, newDueDate) ==
    LET line == lineAt(document, lineNumber)
    IN  <<[kind |-> "insertDue", line |-> lineNumber, text |-> newDueDate,
           from |-> Len(line.text) + 1, to |-> Len(line.text) + 1,
           newText |-> <<" ">> \o DueTag(newDueDate)]>>

\* setDueDate(document, lineNumber, newDueDate): the edits of its
\* WorkspaceEdit
setDueDate(document, ts, lineNumber, newDueDate) ==
    LET dueDate == DueTag(newDueDate)
        task    == findTaskAtLineExtension(ts, lineNumber)
        line    == lineAt(document, lineNumber)
        isLineEndsWithWhitespace == line.text # <<>> /\ line.text[Len(line.text)] = " "
    IN  IF task # <<>> /\ task[1].dueRange # <<>>
        THEN <<[kind |-> "replaceDue", line |-> lineNumber, text |-> newDueDate,
                from |-> task[1].dueRange[1], to |-> task[1].dueRange[2],
                newText |-> dueDate]>>
        ELSE <<[kind |-> "insertDue", line |-> lineNumber, text |-> newDueDate,
                from |-> Len(line.text) + 1, to |-> Len(line.text) + 1,
                newText |-> (IF isLineEndsWithWhitespace THEN <<>> ELSE <<" ">>) \o dueDate]>>

\* the due tags of a line
DueTags(s) == TagsWithKey(s, <<"d", "u", "e">>)

\* a line is given a due date while it has fewer than MaxDueTags due tags
MaxDueTags == 3

\* the user sets the due date of a line
SetDueDate(lineNumber, newDueDate) ==
    /\ Cardinality(DueTags(lines[lineNumber + 1])) < MaxDueTags
    /\ edits' = setDueDate(lines, tasks, lineNumber, newDueDate)
    /\ lines' = applyEdit(edits', lines)
    /\ tasks' = parseDocument(lines').tasks
    /\ pc' = "dueSet"
    /\ command' = <<lineNumber, newDueDate>>
    /\ UNCHANGED <<due, now, dstZone, parsed, info, lastVisit, anchor, archive,
                   extensionConfig, state>>

\* the values setDueDate is called with
NewDueDates == {IsoText(2018, 1, 5), <<"e", "d">>, <<"e", "1", "0", "d">>}

\* the lines whose due date is set: tasks without a due tag, with one at the
\* end, in the middle or at the start of the line, with two, and comments
DueLines ==
    {<<"a">>, <<"a", " ">>, <<>>,
     LineText(<<>>, FALSE, IsoText(2018, 1, 1), <<>>, FALSE, <<>>),
     LineText(<<>>, TRUE, <<"e", "d">>, <<1, 3>>, FALSE, Tag(<<"c", "m">>, IsoText(2018, 1, 2))),
     DueTag(<<"e", "d">>) \o <<" ", "a">>,
     <<"a">> \o Tag(<<"d", "u", "e">>, <<"e", "d">>) \o Tag(<<"d", "u", "e">>, <<"M", "o", "n">>),
     <<"#", " ", "c">>,
     <<"#", " ", "c">> \o Tag(<<"d", "u", "e">>, <<"e", "d">>)}

\* the line stands alone, or after the line of a task with a due date
DueDocuments ==
    {<<s>> : s \in DueLines}
        \cup {<<<<"b">> \o Tag(<<"d", "u", "e">>, <<"e", "d">>), s>> : s \in DueLines}

InitDue ==
    /\ ActionsIdle
    /\ lines \in DueDocuments
    /\ tasks = parseDocument(lines).tasks
    /\ extensionConfig = DefaultConfig

NextDue ==
    \E lineNumber \in 0..(Len(lines) - 1), newDueDate \in NewDueDates :
        SetDueDate(lineNumber, newDueDate)

SpecDue == InitDue /\ [][NextDue]_vars

\* String.prototype.charCodeAt(0) of an upper case letter
charCodeAt(c) == 64 + (CHOOSE i \in 1..26 : Upper[i] = c)

\* String.fromCharCode of a code from 64 to 91
fromCharCode(n) == IF n = 64 THEN "@" ELSE IF n = 91 THEN "[" ELSE Upper[n - 64]

\* the edit that writes the priority next to that of the task
PriorityEdit(task, lineNumber, type) ==
    LET newPriority == IF type = "increment"
                       THEN fromCharCode(charCodeAt(task.priority[1]) - 1)
                       ELSE fromCharCode(charCodeAt(task.priority[1]) + 1)
    IN  IF task.priorityRange # <<>>
        THEN <<[kind |-> "replacePriority", line |-> lineNumber, text |-> <<newPriority>>,
                from |-> task.priorityRange[1], to |-> task.priorityRange[2],
                newText |-> <<"(", newPriority, ")">>]>>
        ELSE <<[kind |-> "insertPriority", line |-> lineNumber, text |-> <<newPriority>>,
                from |-> 1, to |-> 1,
                newText |-> <<"(", newPriority, ")", " ">>]>>

\* incrementOrDecrementPriority that does not stop at A and at Z
incrementOrDecrementPriorityUnbounded(ts, lineNumber, type) ==
    LET task == findTaskAtLineExtension(ts, lineNumber)
    IN  IF task = <<>> THEN [outcome |-> "returned", edits |-> <<>>]
        ELSE IF task[1].priority = <<>> THEN [outcome |-> "raised", edits |-> <<>>]
        ELSE [outcome |-> "returned", edits |-> PriorityEdit(task[1], lineNumber, type)]

\* incrementOrDecrementPriority(document, lineNumber, type): the edits of its
\* WorkspaceEdit; reading charCodeAt of a priority that is none raises a
\* TypeError
incrementOrDecrementPriority(ts, lineNumber, type) ==
    LET task == findTaskAtLineExtension(ts, lineNumber)
    IN  IF \/ task = <<>>
           \/ type = "increment" /\ task[1].priority = <<"A">>
           \/ type = "decrement" /\ task[1].priority = <<"Z">>
        THEN [outcome |-> "returned", edits |-> <<>>]
        ELSE IF task[1].priority = <<>> THEN [outcome |-> "raised", edits |-> <<>>]
        ELSE [outcome |-> "returned", edits |-> PriorityEdit(task[1], lineNumber, type)]

\* the user raises or lowers the priority of the task of a line
IncrementOrDecrementPriority(lineNumber, type) ==
    /\ LET res == incrementOrDecrementPriority(tasks, lineNumber, type)
       IN  /\ edits' = res.edits
           /\ pc' = IF res.outcome = "raised" THEN "raised" ELSE type
    /\ lines' = applyEdit(edits', lines)
    /\ tasks' = parseDocument(lines').tasks
    /\ command' = <<lineNumber, type>>
    /\ UNCHANGED <<due, now, dstZone, parsed, info, lastVisit, anchor, archive,
                   extensionConfig, state>>

\* the lines whose priority is changed: a task with a priority at each end
\* of the alphabet and in its middle, done or nested, with a tag, a task
\* without a priority, and a comment
PriorityLines ==
    {<<"(", Upper[k], ")", " ", "a">> : k \in {1, 2, 13, 25, 26}}
        \cup {doneSymbol \o <<"(", "C", ")", " ", "a">>,
              Blanks(activeDocumentTabSize) \o <<"(", "D", ")", " ", "a", " ", "#", "t">>,
              <<"(", "E", ")">>,
              <<"a">>,
              <<"a", " ", "(", "B", ")">>,
              <<"#", " ", "(", "A", ")">>}

\* the line stands alone, or after the line of a task with a priority
PriorityDocuments ==
    {<<s>> : s \in PriorityLines} \cup {<<<<"(", "M", ")", " ", "b">>, s>> : s \in PriorityLines}

InitPriority ==
    /\ ActionsIdle
    /\ lines \in PriorityDocuments
    /\ tasks = parseDocument(lines).tasks
    /\ extensionConfig = DefaultConfig

NextPriority ==
    \E lineNumber \in 0..(Len(lines) - 1), type \in {"increment", "decrement"} :
        IncrementOrDecrementPriority(lineNumber, type)

SpecPriority == InitPriority /\ [][NextPriority]_vars

(***************************************************************************)
(* The difference of two instants in days                                  *)
(***************************************************************************)
\* two instants d1 = lastVisit and d2 = now, each at any hour of its day
InitDays ==
    /\ due = <<>>
    /\ dstZone \in BOOLEAN
    /\ now \in {LocalMidnight(d) + h : d \in TargetDays, h \in HoursOfDay}
    /\ lastVisit \in {LocalMidnight(d) + h : d \in TargetDays, h \in HoursOfDay}
    /\ pc = "idle"
    /\ parsed = <<>>
    /\ info = NoInfo
    /\ tasks = <<>>
    /\ edits = <<>>
    /\ lines = <<>>
    /\ anchor = <<>>
    /\ NoArchive
    /\ NoUpdate

\* calcDiffInDays(d1, d2) called on the two instants as they are
CalcDiffInDays ==
    /\ pc = "idle"
    /\ parsed' = <<calcDiffInDays(lastVisit, now)>>
    /\ pc' = "diffed"
    /\ UNCHANGED <<due, now, dstZone, info, tasks, lastVisit, edits, lines, anchor, archive,
                 extensionConfig, command, state>>

\* calcDiffInDays called as the due engine calls it, on the two instants
\* shortened to their dates
CalcDiffInDaysShortened ==
    /\ pc = "idle"
    /\ parsed' = <<calcDiffInDays(shortenToDate(lastVisit), shortenToDate(now))>>
    /\ pc' = "diffedDates"
    /\ UNCHANGED <<due, now, dstZone, info, tasks, lastVisit, edits, lines, anchor, archive,
                 extensionConfig, command, state>>

NextDays == CalcDiffInDays \/ CalcDiffInDaysShortened

SpecDays == InitDays /\ [][NextDays]_vars

(***************************************************************************)
(* Properties of the due date engine                                       *)
(***************************************************************************)
Evaluated == pc = "evaluated"

CivilDay(x) == DaysFromCivil(x[1], x[2], x[3])

\* C1: an exact calendar date YYYY-MM-DD is Due exactly on its own day,
\* Overdue exactly when it is earlier than the day of the evaluation, NotDue
\* otherwise, and it is not recurring.
C1_ExactDateState ==
    \A x \in ExactDates :
        (Evaluated /\ due = IsoText(x[1], x[2], x[3])) =>
            /\ info.isDue = (IF DayOf(now) = CivilDay(x) THEN "Due"
                             ELSE IF CivilDay(x) < DayOf(now) THEN "Overdue"
                             ELSE "NotDue")
            /\ ~info.isRecurring

\* C2: a weekday name, full or abbreviated and in any letter case, is Due
\* exactly on its weekday and NotDue on the other six; it is recurring and
\* never Invalid.
C2_WeekdayState ==
    \A w \in 0..6 :
        (Evaluated /\ due \in WeekdaySpellings(w)) =>
            /\ info.isDue = (IF getDay(now) = w THEN "Due" ELSE "NotDue")
            /\ info.isRecurring

\* C3: the expression start|eNd, evaluated on or after the start date, is
\* Due exactly when the number of days since the start is a multiple of N
\* and NotDue otherwise; it is recurring.
C3_EveryNDaysFromStart ==
    \A x \in StartDates, n \in Intervals :
        (Evaluated /\ due = Anchored(x, <<"|">>, EveryNDays(n)) /\ DayOf(now) >= CivilDay(x)) =>
            /\ info.isDue = (IF (DayOf(now) - CivilDay(x)) % n = 0 THEN "Due" ELSE "NotDue")
            /\ info.isRecurring

\* C5: mon,sun is Due on every Monday and Sunday and NotDue from Tuesday to
\* Saturday: the expression is Due when any alternative is Due.
C5_AnyAlternativeDue ==
    (Evaluated /\ due = Join(<<"m", "o", "n">>, <<"s", "u", "n">>)) =>
        info.isDue = (IF getDay(now) \in {0, 1} THEN "Due" ELSE "NotDue")

\* C6: a text that matches none of the forms of the grammar is Invalid.
C6_UnmatchedIsInvalid ==
    (Evaluated /\ due \in InvalidFixtures) => info.isDue = "Invalid"

\* C7: a date part that is no calendar date, or a recurrence suffix with a
\* zero, non-numeric or unit-less interval, is Invalid.
C7_MalformedIsInvalid ==
    (/\ Evaluated
     /\ \/ \E x \in NonDates : due = IsoText(x[1], x[2], x[3])
        \/ \E a \in BadAlgorithms : due = Anchored(<<2018, 1, 1>>, <<"-">>, a)) =>
        info.isDue = "Invalid"

\* C8: an every-N-days expression is NotDue on every day before its start
\* date, also when the distance to the start is a multiple of N.
C8_NotDueBeforeStart ==
    \A x \in StartDates, n \in Intervals :
        (Evaluated /\ due = Anchored(x, <<"-">>, EveryNDays(n)) /\ DayOf(now) < CivilDay(x)) =>
            info.isDue = "NotDue"

\* the expressions of an exact date and a weekday, in both orders
DateAndWeekday(x, w) ==
    {Join(IsoText(x[1], x[2], x[3]), Capitalize(Abbreviate(WeekdayNames[w + 1]))),
     Join(Capitalize(Abbreviate(WeekdayNames[w + 1])), IsoText(x[1], x[2], x[3]))}

C10_InvalidOnlyWhenAllInvalid ==
    /\ (Evaluated /\ due = Join(<<"2", "0", "2", "0">>, <<"2", "0", "2", "0", "-", "0", "5", "-", "2">>)) =>
            info.isDue = "Invalid"
    /\ (Evaluated /\ due = Join(<<"2", "0", "2", "0">>, <<"W", "e", "d">>)) =>
            info.isDue = (IF getDay(now) = 3 THEN "Due" ELSE "NotDue")
    /\ (Evaluated /\ due \in CommaExprs /\ info.isDue = "Invalid") =>
            due = Join(<<"2", "0", "2", "0">>, <<"2", "0", "2", "0", "-", "0", "5", "-", "2">>)

(***************************************************************************)
(* Properties of the reset of the recurring tasks                          *)
(***************************************************************************)
ResetDone == pc = "reset"

\* the tasks the overdue scan is about: recurring, not done, not flagged
\* overdue, visited last on an earlier day than today
ScanTasks ==
    {i \in 1..Len(tasks) :
        /\ tasks[i].due # <<>>
        /\ DueDate(tasks[i].due, now).isRecurring
        /\ ~tasks[i].done
        /\ ~tasks[i].overdue
        /\ DayOf(lastVisit) < DayOf(now)}

\* the days from lo to hi on which the expression is Due or Overdue at noon
HitDays(raw, lo, hi) ==
    {d \in lo..hi : DueDate(raw, LocalMidnight(d) + 12).isDue \in {"Due", "Overdue"}}

SetMax(S) == CHOOSE x \in S : \A y \in S : y <= x

\* the insert-overdue edits of the task on line n
OverdueEdits(n) == {k \in 1..Len(edits) : edits[k].kind = "insertOverdue" /\ edits[k].line = n}

\* the calendar day a text YYYY-MM-DD names
DayOfText(s) ==
    DaysFromCivil(Number(SubSeq(s, 1, 4)), Number(SubSeq(s, 6, 7)), Number(SubSeq(s, 9, 10)))

\* C4 as stated: one insert-overdue edit when the expression is Due or
\* Overdue on some day from the last visit to today, dated the day closest to
\* today among those days; no such edit when there is no such day.
C4_ClosestToNow ==
    ResetDone =>
        \A i \in ScanTasks :
            LET hits == HitDays(tasks[i].due, DayOf(lastVisit), DayOf(now))
                es   == OverdueEdits(tasks[i].lineNumber)
            IN  IF hits = {} THEN es = {}
                ELSE /\ Cardinality(es) = 1
                     /\ \A k \in es : DayOfText(edits[k].text) = SetMax(hits)

\* C4 amended: one insert-overdue edit when the expression is Due or Overdue
\* on some day from the last visit to yesterday, dated the earliest of those
\* days; no such edit when there is no such day.
C4_EarliestSinceLastVisit ==
    ResetDone =>
        \A i \in ScanTasks :
            LET hits == HitDays(tasks[i].due, DayOf(lastVisit), DayOf(now) - 1)
                es   == OverdueEdits(tasks[i].lineNumber)
            IN  IF hits = {} THEN es = {}
                ELSE /\ Cardinality(es) = 1
                     /\ \A k \in es : /\ Len(edits[k].text) = 10
                                      /\ DayOfText(edits[k].text) = SetMin(hits)

\* C4 witness: a task due on several days since the last visit got its edit,
\* dated the earliest of them, which is not the latest
C4_Witness ==
    /\ ResetDone
    /\ \E i \in ScanTasks :
           LET hits == HitDays(tasks[i].due, DayOf(lastVisit), DayOf(now) - 1)
           IN  /\ Cardinality(hits) > 1
               /\ SetMin(hits) > DayOf(lastVisit)
               /\ \E k \in OverdueEdits(tasks[i].lineNumber) :
                      DayOfText(edits[k].text) = SetMin(hits)

(***************************************************************************)
(* Properties of the date ranges                                           *)
(***************************************************************************)
\* C11 as stated: a range date1..date2 is not recurring and is a range; it
\* is Overdue when both endpoints are before the day of the evaluation, Due
\* when that day lies in [date1, date2], NotDue otherwise.
C11_RangeState ==
    \A a \in RangeEnds, b \in RangeEnds :
        (pc \in {"parsed", "evaluated"} /\ due = Range(a, b)) =>
            /\ Len(parsed) = 1
            /\ ~parsed[1].isRecurring
            /\ parsed[1].isRange
            /\ parsed[1].isDue =
                  (IF CivilDay(a) < DayOf(now) /\ CivilDay(b) < DayOf(now) THEN "Overdue"
                   ELSE IF CivilDay(a) <= DayOf(now) /\ DayOf(now) <= CivilDay(b) THEN "Due"
                   ELSE "NotDue")

\* C11 amended: Due when the day of the evaluation lies between the two
\* endpoints, both included, whichever of them is the earlier.
C11_RangeStateEitherOrder ==
    \A a \in RangeEnds, b \in RangeEnds :
        (pc \in {"parsed", "evaluated"} /\ due = Range(a, b)) =>
            /\ Len(parsed) = 1
            /\ ~parsed[1].isRecurring
            /\ parsed[1].isRange
            /\ parsed[1].isDue =
                  (IF CivilDay(a) < DayOf(now) /\ CivilDay(b) < DayOf(now) THEN "Overdue"
                   ELSE IF \/ (CivilDay(a) <= DayOf(now) /\ DayOf(now) <= CivilDay(b))
                           \/ (CivilDay(b) <= DayOf(now) /\ DayOf(now) <= CivilDay(a)) THEN "Due"
                   ELSE "NotDue")

\* C11 witness: 2018-01-02..2018-01-04 evaluated on its last day is Due
C11_Witness ==
    /\ pc = "parsed"
    /\ due = Range(<<2018, 1, 2>>, <<2018, 1, 4>>)
    /\ DayOf(now) = DaysFromCivil(2018, 1, 4)
    /\ parsed[1].isDue = "Due"
    /\ parsed[1].isRange

(***************************************************************************)
(* Properties of the edits of the reset                                    *)
(***************************************************************************)
\* the due expressions of TaskDues that recur: every day, a weekday, every
\* n days from a start date
RecurringTaskDues == TaskDues \ {<<>>, IsoText(2018, 1, 1)}

\* C12: the reset adds no insert-overdue edit for a task that carries an
\* overdue tag, for a task that is done, or when today is the calendar day of
\* the last visit.
C12_NoOverdueEdit ==
    ResetDone =>
        \A i \in 1..Len(tasks) :
            (tasks[i].overdue \/ tasks[i].done \/ DayOf(now) = DayOf(lastVisit)) =>
                OverdueEdits(tasks[i].lineNumber) = {}

\* C12 witness: a recurring open task that carries an overdue tag was due on
\* a day since the last visit and got no second tag
C12_Witness ==
    /\ ResetDone
    /\ \E i \in 1..Len(tasks) :
           /\ tasks[i].due \in RecurringTaskDues
           /\ tasks[i].overdue
           /\ ~tasks[i].done
           /\ DayOf(lastVisit) < DayOf(now)
           /\ HitDays(tasks[i].due, DayOf(lastVisit), DayOf(now) - 1) # {}
           /\ OverdueEdits(tasks[i].lineNumber) = {}
           /\ Cardinality(TagsWithKey(lines[i], <<"o", "v", "e", "r", "d", "u", "e">>)) = 1

\* the set-count edits of the task on line n
CountEdits(n) == {k \in 1..Len(edits) : edits[k].kind = "setCount" /\ edits[k].line = n}

\* C13: the reset adds one edit that sets the counter to zero for every
\* recurring task with a counter, done or not, due or not, tagged overdue or
\* not, and no such edit for a task that does not recur.
C13_CountReset ==
    ResetDone =>
        \A i \in 1..Len(tasks) :
            LET es == CountEdits(tasks[i].lineNumber)
            IN  IF tasks[i].due \in RecurringTaskDues /\ tasks[i].count # <<>>
                THEN /\ Cardinality(es) = 1
                     /\ \A k \in es : edits[k].text = <<"0">>
                ELSE es = {}

\* C13 witness: a done recurring task with an overdue tag and the counter
\* 1/3 got the edit, and its line now reads 0/3
C13_Witness ==
    /\ ResetDone
    /\ \E i \in 1..Len(tasks) :
           /\ tasks[i].due \in RecurringTaskDues
           /\ tasks[i].done
           /\ tasks[i].overdue
           /\ tasks[i].count # <<>>
           /\ tasks[i].count[1] = 1
           /\ CountEdits(tasks[i].lineNumber) # {}
           /\ CountOf(lines[i]) # <<>>
           /\ CountOf(lines[i])[1] = 0
           /\ CountOf(lines[i])[2] = 3

\* C14: once the edits of the reset are applied and the line is parsed
\* again, a recurring task that was done is not done and has no completion
\* date.
C14_Reopened ==
    ResetDone =>
        \A i \in 1..Len(tasks) :
            (tasks[i].due \in RecurringTaskDues /\ tasks[i].done) =>
                /\ ~ParseLine(lines[i], i - 1).done
                /\ ~ParseLine(lines[i], i - 1).completionDate

(***************************************************************************)
(* Properties of the due date engine: time of day, errors                  *)
(***************************************************************************)
\* C17: the due state of an expression depends only on the calendar day of
\* the target instant: evaluated at any other hour of the same day, every
\* alternative of the expression has the same result.
C17_TimeOfDayIndependent ==
    pc \in {"parsed", "evaluated"} =>
        \A h \in 0..(ONE_DAY - 1) :
            LET t == LocalMidnight(DayOf(now)) + h
            IN  DayOf(t) = DayOf(now) => parseDue(due, t) = parsed

\* C17 witness: an expression due every second day from a start date later
\* than the target day, evaluated in the afternoon
C17_Witness ==
    /\ pc = "parsed"
    /\ due = Anchored(<<2018, 1, 3>>, <<"-">>, EveryNDays(2))
    /\ DayOf(now) = DaysFromCivil(2018, 1, 1)
    /\ now - LocalMidnight(DayOf(now)) = 13
    /\ parsed[1].isDue = "Due"

\* C18: parseDue throws for no text: the state of every alternative is a
\* returned value; isDueWithDate throws when, and only when, it is called
\* without a start date.
C18_ThrowsOnlyWithoutStart ==
    /\ pc = "raised" => (parsed = <<>> /\ anchor = <<>>)
    /\ pc = "called" => (anchor # <<>> /\ info.isDue \in {"Due", "NotDue"})
    /\ pc \in {"parsed", "evaluated"} =>
           \A i \in 1..Len(parsed) : parsed[i].isDue \in {"NotDue", "Due", "Overdue", "Invalid"}

\* C18 witness: isDueWithDate was called without a start date and threw
C18_Witness ==
    /\ pc = "raised"
    /\ anchor = <<>>
    /\ parsed = <<>>
    /\ due = Anchored(<<2018, 1, 1>>, <<"-">>, EveryNDays(2))

\* C18 witness of the other case: a text that matches no form was parsed and its
\* state returned
C18_MalformedReturned ==
    /\ pc = "parsed"
    /\ due \in InvalidFixtures
    /\ Len(parsed) >= 1

(***************************************************************************)
(* Properties of the tree of the tasks                                     *)
(***************************************************************************)
\* the parsed documents the calls of updateState hold
ParsedDocuments ==
    {calls[c].parsedDocument[1] : c \in {x \in 1..MaxCalls : calls[x].parsedDocument # <<>>}}

\* C15: the pre-order walk of the roots of the tree gives the parsed lines
\* back: as many tasks, in the same order, with the same line numbers and
\* indentation.
C15_TreeRoundTrip ==
    \A p \in ParsedDocuments :
        LET flat == forEachTask(p.tasksAsTree)
        IN  /\ Len(flat) = Len(p.tasks)
            /\ \A k \in 1..Len(flat) :
                   /\ flat[k].lineNumber = p.tasks[k].lineNumber
                   /\ flat[k].lineNumber = k - 1
                   /\ flat[k].indentLvl = p.tasks[k].indentLvl

\* C15 witness: lines at the levels 0, 2, 1 are one root with two subtasks,
\* and the state holds the three tasks
C15_Witness ==
    /\ calls[1].outcome = "completed"
    /\ \E p \in ParsedDocuments :
           /\ [k \in 1..Len(p.tasks) |-> p.tasks[k].indentLvl] = <<0, 2, 1>>
           /\ Len(p.tasksAsTree) = 1
           /\ Len(p.tasksAsTree[1].subtasks) = 2
           /\ extensionState.tasksAsTree = p.tasksAsTree

\* every task of the forest is at the level, its subtasks one level deeper
RECURSIVE NestedByOne(_, _)
NestedByOne(nodes, level) ==
    \A k \in 1..Len(nodes) :
        /\ nodes[k].indentLvl = level
        /\ NestedByOne(nodes[k].subtasks, level + 1)

\* C16: every root of the tree has the indentation level 0 and every other
\* task the level of its parent plus one.
C16_IndentOneDeeper == \A p \in ParsedDocuments : NestedByOne(p.tasksAsTree, 0)

(***************************************************************************)
(* Properties of the state of the extension                                *)
(***************************************************************************)
\* the line numbers of the tasks that carry the name, in document order
RECURSIVE Carriers(_, _, _)
Carriers(ts, kind, name) ==
    IF ts = <<>> THEN <<>>
    ELSE (IF \E j \in 1..Len(Head(ts)[kind]) : Head(ts)[kind][j] = name
          THEN <<Head(ts).lineNumber>> ELSE <<>>)
            \o Carriers(Tail(ts), kind, name)

\* the names of the tasks of a kind
AllNames(ts, kind) ==
    UNION {{ts[i][kind][j] : j \in 1..Len(ts[i][kind])} : i \in 1..Len(ts)}

\* one bucket for every name the tasks carry, none for another name, and in
\* the bucket of a name the tasks that carry it, each once, in document order
BucketsOf(items, ts, kind) ==
    /\ \A name \in AllNames(ts, kind) :
           Cardinality({i \in 1..Len(items) : items[i].title = name}) = 1
    /\ \A i \in 1..Len(items) :
           /\ items[i].title \in AllNames(ts, kind)
           /\ items[i].tasks # <<>>
           /\ [k \in 1..Len(items[i].tasks) |-> items[i].tasks[k].lineNumber]
                  = Carriers(ts, kind, items[i].title)

\* the calls of updateState that have grouped the tasks of a document
Grouped == {c \in 1..MaxCalls : calls[c].outcome # "none" /\ calls[c].parsedDocument # <<>>}

\* C19: after the grouping, every tag, project and context has one bucket,
\* which holds the tasks that carry the name, nested or not, each once and in
\* document order; no bucket is empty.
C19_Buckets ==
    \A c \in Grouped :
        /\ calls[c].treeItems # <<>>
        /\ BucketsOf(calls[c].treeItems[1].tagsForProvider,
                     calls[c].parsedDocument[1].tasks, "tags")
        /\ BucketsOf(calls[c].treeItems[1].projectsForProvider,
                     calls[c].parsedDocument[1].tasks, "projects")
        /\ BucketsOf(calls[c].treeItems[1].contextsForProvider,
                     calls[c].parsedDocument[1].tasks, "contexts")

\* the fields of the state are those of the one parse p and of its grouping g
SingleParse(es, p, g) ==
    /\ es.tasks = p.tasks
    /\ es.tasksAsTree = p.tasksAsTree
    /\ es.commentLines = p.commentLines
    /\ es.tags = <<g.tags>>
    /\ es.projects = <<g.projects>>
    /\ es.contexts = <<g.contexts>>
    /\ es.tagsForTreeView = <<g.tagsForProvider>>
    /\ es.projectsForTreeView = <<g.projectsForProvider>>
    /\ es.contextsForTreeView = <<g.contextsForProvider>>

\* C20: when a call of updateState completes, every field of the state is
\* that of the one parse of the call and of its grouping, or every field is
\* empty when there was no document.
C20_SingleParse ==
    [][\A c \in 1..MaxCalls :
          (calls[c].pc # "idle" /\ calls'[c].pc = "idle" /\ calls'[c].outcome = "completed") =>
              IF calls'[c].parsedDocument = <<>>
              THEN extensionState' = InitialState
              ELSE SingleParse(extensionState', calls'[c].parsedDocument[1],
                               calls'[c].treeItems[1])]_vars


(***************************************************************************)
(* Properties of the difference in days                                    *)
(***************************************************************************)
\* C22: the difference in whole days of two instants is the number of
\* calendar days from the first instant's day to the second's, whatever the
\* times of day, and it is 0 exactly when the two are the same calendar day.
C22_CalendarDays ==
    pc = "diffed" =>
        /\ parsed[1] = DayOf(now) - DayOf(lastVisit)
        /\ (parsed[1] = 0) <=> isTheSameDay(lastVisit, now)

\* the same for two instants shortened to their dates before the call
C22_CalendarDaysOfDates ==
    pc = "diffedDates" =>
        /\ parsed[1] = DayOf(now) - DayOf(lastVisit)
        /\ (parsed[1] = 0) <=> isTheSameDay(lastVisit, now)

\* where no clock change lies between the two days, the shortened call counts
\* the calendar days
C22_CalendarDaysNoClockChange ==
    (pc = "diffedDates" /\ ~dstZone) =>
        /\ parsed[1] = DayOf(now) - DayOf(lastVisit)
        /\ (parsed[1] = 0) <=> isTheSameDay(lastVisit, now)


(***************************************************************************)
(* Properties of overlapping calls of updateState                          *)
(***************************************************************************)
\* every call of updateState has returned, the last of them normally
Settled ==
    /\ \A c \in 1..MaxCalls : calls[c].pc = "idle"
    /\ \E c \in 1..MaxCalls : calls[c].outcome # "none"
    /\ activeDocument # <<>>

\* C26: once the calls of updateState that the changes of the document have
\* started have all completed, the stored snapshot is the parse of the latest
\* text of the document.
C26_LatestText ==
    Settled =>
        LET parsedDocument == parseDocument(activeDocument[1])
        IN  /\ extensionState.tasks = parsedDocument.tasks
            /\ extensionState.tasksAsTree = parsedDocument.tasksAsTree
            /\ extensionState.commentLines = parsedDocument.commentLines

\* while one call at a time runs, the snapshot is that of the latest text
C26_LatestTextInTurn ==
    (\A c \in 2..MaxCalls : calls[c] = IdleCall) => C26_LatestText


(***************************************************************************)
(* Properties of the document actions                                      *)
(***************************************************************************)
\* the task of the line the action is about, before the action
Target == findTaskAtLineExtension(tasks, command'[1])[1]

\* the document has as many lines as before and the line of the action
\* still has text
LineKept ==
    /\ Len(lines') = Len(lines)
    /\ lines'[command'[1] + 1] # <<>>

\* a step of toggleDoneAtLine on a line that holds a task
Toggles ==
    /\ pc' = "toggled"
    /\ findTaskAtLineExtension(tasks, command'[1]) # <<>>

\* C21: with autoArchiveTasks, toggleDoneAtLine appends the line of a task to
\* the archive file only when the toggle completes the task; the toggle of a
\* done task archives nothing and keeps the line; a completed recurring task
\* is archived and its line is kept.
C21_ArchiveOnCompletion ==
    [][(Toggles /\ extensionConfig.autoArchiveTasks) =>
          /\ archive' # archive => ~Target.done
          /\ Target.done => (archive' = archive /\ LineKept)
          /\ (~Target.done /\ isRecurring(Target, now)) =>
                 /\ Len(archive') = Len(archive) + 1
                 /\ LineKept]_vars

\* a completed recurring task is archived and its line is kept
C21_RecurringKept ==
    [][(Toggles /\ extensionConfig.autoArchiveTasks /\ ~Target.done /\ isRecurring(Target, now)) =>
          /\ Len(archive') = Len(archive) + 1
          /\ LineKept
          /\ findTaskAtLineExtension(tasks', command'[1])[1].done]_vars

\* without autoArchiveTasks nothing is archived and no line is deleted
C21_NoArchive ==
    [][(Toggles /\ ~extensionConfig.autoArchiveTasks) =>
          (archive' = archive /\ LineKept)]_vars


\* a step of tryToDeleteTask on a line that holds a task
Deletes == pc' \in {"declined", "deleted"} /\ Len(command') = 2

\* the task of the tree the step is about, before the step
TargetNode == FindNode(parseDocument(lines).tasksAsTree, command'[1])

\* the line numbers of the task n and of its descendants at every depth:
\* the tasks whose chain of parents reaches n
RECURSIVE ReachesUp(_, _, _)
ReachesUp(nodes, m, n) ==
    \/ m = n
    \/ /\ m # -1
       /\ ReachesUp(nodes, FindNode(nodes, m).parentTaskLineNumber, n)

Subtree(n) ==
    LET nodes == parseDocument(lines).tasksAsTree
        all   == forEachTask(nodes)
    IN  {all[k].lineNumber : k \in {j \in 1..Len(all) : ReachesUp(nodes, all[j].lineNumber, n)}}

\* the lines of the document whose numbers are not in gone, in their order
RECURSIVE RemainingFrom(_, _, _)
RemainingFrom(document, gone, i) ==
    IF i > Len(document) THEN <<>>
    ELSE (IF (i - 1) \in gone THEN <<>> ELSE <<document[i]>>)
            \o RemainingFrom(document, gone, i + 1)

\* the document without the lines gone: a document without text has one
\* empty line
Remaining(document, gone) ==
    IF RemainingFrom(document, gone, 1) = <<>> THEN <<<<>>>>
    ELSE RemainingFrom(document, gone, 1)

\* confirmation is required for the task of the step
ConfirmationRequired ==
    \/ extensionConfig.confirmTaskDelete = "always"
    \/ extensionConfig.confirmTaskDelete = "hasNestedTasks" /\ TargetNode.subtasks # <<>>

\* C23: when the deletion requires confirmation and the user does not choose
\* Delete, tryToDeleteTask leaves the document unchanged; in every other case
\* the document is left with exactly the lines that are neither the task's
\* nor a descendant's.
C23_DeletesSubtree ==
    [][Deletes =>
          IF ConfirmationRequired /\ command'[2] # "Delete"
          THEN lines' = lines
          ELSE lines' = Remaining(lines, Subtree(command'[1]))]_vars

\* the same, where the last line of the document, when it is deleted, gives
\* up its text and stays as an empty line
C23_DeletesSubtreeText ==
    [][Deletes =>
          IF ConfirmationRequired /\ command'[2] # "Delete"
          THEN lines' = lines
          ELSE LET gone == Subtree(command'[1])
               IN  lines' = IF (Len(lines) - 1) \in gone
                            THEN RemainingFrom(lines, gone, 1) \o <<<<>>>>
                            ELSE Remaining(lines, gone)]_vars


\* a step that increments or decrements the counter of a task that has one
Counts ==
    /\ pc' \in {"incremented", "decremented"}
    /\ Len(command') = 1
    /\ findTaskAtLineExtension(tasks, command'[1]) # <<>>
    /\ Target.count # <<>>

\* the task of the line of the step, after the step
TargetAfter == findTaskAtLineExtension(tasks', command'[1])[1]

\* the counter of the task is within its bounds and the line carries a
\* completion date, and one only, exactly when the counter has reached needed
DatedWhenReached(document, task) ==
    /\ task.count # <<>>
    /\ task.count[1] <= task.count[2]
    /\ task.completionDate <=> task.count[1] = task.count[2]
    /\ Cardinality(TagsWithKey(document[task.lineNumber + 1], <<"c", "m">>)) <= 1

\* C24: a counter task that carries a completion date exactly when current
\* equals needed, as one with current < needed and no completion date does,
\* still does after an increment or a decrement.
C24_DatedWhenReached ==
    [][(Counts /\ DatedWhenReached(lines, Target)) =>
          DatedWhenReached(lines', TargetAfter)]_vars

\* an increment has brought a counter to needed and the line has its date
C24_Witness ==
    /\ pc = "incremented"
    /\ lines = <<<<"a">> \o Tag(<<"c", "o", "u", "n", "t">>, <<"1", "/", "1">>)
                    \o Tag(<<"c", "m">>, FormatDate(now))>>

\* the counter of the task is within its bounds
WithinBounds(task) ==
    /\ task.count # <<>>
    /\ 0 <= task.count[1]
    /\ task.count[1] <= task.count[2]

\* C25: a counter with 0 <= current <= needed is still within these bounds
\* after an increment or a decrement, and needed is unchanged; an increment
\* at current = needed sets current to 0 and a decrement at current = 0
\* changes nothing.
C25_WithinBounds ==
    [][(Counts /\ WithinBounds(Target)) =>
          /\ WithinBounds(TargetAfter)
          /\ TargetAfter.count[2] = Target.count[2]
          /\ (pc' = "incremented" /\ Target.count[1] = Target.count[2]) =>
                 TargetAfter.count[1] = 0
          /\ (pc' = "incremented" /\ Target.count[1] # Target.count[2]) =>
                 TargetAfter.count[1] = Target.count[1] + 1
          /\ (pc' = "decremented" /\ Target.count[1] = 0) => lines' = lines
          /\ (pc' = "decremented" /\ Target.count[1] # 0) =>
                 TargetAfter.count[1] = Target.count[1] - 1]_vars

\* an increment has wrapped the counter 10/10 to 0
C25_Witness ==
    /\ pc = "incremented"
    /\ edits # <<>>
    /\ edits[1].kind = "setCount"
    /\ edits[1].text = <<"0">>
    /\ lines = <<<<"a">> \o Tag(<<"c", "o", "u", "n", "t">>, <<"0", "/", "1", "0">>)>>


\* a step of setDueDate
SetsDue == pc' = "dueSet" /\ Len(command') = 2

\* the line of the step, before it and after it
LineBefore == lines[command'[1] + 1]

LineAfter == lines'[command'[1] + 1]

\* the line has one due tag, with the value of the call
OneDueTag ==
    /\ Cardinality(DueTags(LineAfter)) = 1
    /\ TagValueOf(LineAfter, <<"d", "u", "e">>) = command'[2]

\* the due tag the line had is replaced where it stood: the text before it
\* and the text after it are as they were
ReplacedInPlace ==
    LET before == TagRange(LineBefore, <<"d", "u", "e">>)
        after  == TagRange(LineAfter, <<"d", "u", "e">>)
    IN  /\ after # <<>>
        /\ after[1] = before[1]
        /\ SubSeq(LineAfter, 1, after[1] - 1) = SubSeq(LineBefore, 1, before[1] - 1)
        /\ SubSeq(LineAfter, after[2], Len(LineAfter))
               = SubSeq(LineBefore, before[2], Len(LineBefore))

\* C27: after a call of setDueDate the line has exactly one due tag, whose
\* value is that of the call; a line that had a due tag has it replaced in
\* place.
C27_OneDueTag ==
    [][SetsDue =>
          /\ OneDueTag
          /\ DueTags(LineBefore) # {} => ReplacedInPlace]_vars

\* C27, amended: the same for the line of a task that has at most one due tag
\* before the call.
C27_OneDueTagOfTask ==
    [][(SetsDue /\ ~IsCommentLine(LineBefore) /\ Cardinality(DueTags(LineBefore)) <= 1) =>
          /\ OneDueTag
          /\ ~IsCommentLine(LineAfter)
          /\ DueTags(LineBefore) # {} => ReplacedInPlace]_vars

\* the due tag in the middle of a line has been replaced by a longer one
C27_Witness ==
    /\ pc = "dueSet"
    /\ edits[1].kind = "replaceDue"
    /\ lines = <<LineText(<<>>, TRUE, IsoText(2018, 1, 5), <<1, 3>>, FALSE,
                          Tag(<<"c", "m">>, IsoText(2018, 1, 2)))>>


\* a step of incrementOrDecrementPriority on a task that has a priority
ChangesPriority ==
    /\ pc' \in {"increment", "decrement"}
    /\ Len(command') = 2
    /\ findTaskAtLineExtension(tasks, command'[1]) # <<>>
    /\ Target.priority # <<>>

\* the place of a letter in the alphabet: 1 for A, 26 for Z
Rank(c) == CHOOSE i \in 1..26 : Upper[i] = c

\* the rank of the priority after the step of type on a priority of rank r
NextRank(r, type) ==
    IF type = "increment" THEN (IF r = 1 THEN 1 ELSE r - 1)
    ELSE (IF r = 26 THEN 26 ELSE r + 1)

\* C28: an increment or a decrement of the priority of a task whose priority
\* is a letter leaves it a letter of A..Z: nothing changes at A for an
\* increment and at Z for a decrement, otherwise the letter moves by one,
\* toward A for an increment and toward Z for a decrement, and nothing else
\* of the document changes, so that the opposite step restores the line.
C28_PriorityByOne ==
    [][ChangesPriority =>
          LET r == Rank(Target.priority[1])
              p == Target.priorityRange[1] + 1
          IN  /\ TargetAfter.priority = <<Upper[NextRank(r, command'[2])]>>
              /\ TargetAfter.priority[1] \in UpperLetters
              /\ NextRank(r, command'[2]) = r => lines' = lines
              /\ lines' = [lines EXCEPT ![command'[1] + 1] =
                              [@ EXCEPT ![p] = Upper[NextRank(r, command'[2])]]]]_vars

\* the priority of a nested task has been raised from D to C
C28_Witness ==
    /\ pc = "increment"
    /\ edits # <<>>
    /\ lines = <<Blanks(activeDocumentTabSize) \o <<"(", "C", ")", " ", "a", " ", "#", "t">>>>

====
